---- MODULE Spec2Model ----
(***************************************************************************)
(* Product assembly workflow of product_creator/Product_Creator.py:        *)
(* create_product and the helpers it sequences (manage_product_media,      *)
(* upload_media_to_product, reorder_product_media_by_order,                *)
(* reorder_product_media, create_metafields, update_product_taxable), run  *)
(* against a remote platform whose answers are nondeterministic.           *)
(***************************************************************************)
EXTENDS Integers, Sequences, FiniteSets, TLC

(***************************************************************************)
(* Bounds of the model.                                                    *)
(***************************************************************************)
\* Remote answers other than a plain success that one run may meet.
MaxFaults == 1
\* New local files a request may carry.
MaxFiles == 1

(***************************************************************************)
(* Generic helpers.                                                        *)
(***************************************************************************)
Range(s) == {s[i] : i \in DOMAIN s}

RECURSIVE SumSeq(_)
SumSeq(s) == IF s = <<>> THEN 0 ELSE Head(s) + SumSeq(Tail(s))

\* The subsequence of s at the indices in I, in order.
RECURSIVE PickFrom(_, _, _)
PickFrom(s, i, I) ==
    IF i > Len(s) THEN <<>>
    ELSE (IF i \in I THEN <<s[i]>> ELSE <<>>) \o PickFrom(s, i + 1, I)

At(s, I) == PickFrom(s, 1, I)

\* Python values that may be absent or None.
Absent == [kind |-> "absent"]
NoneVal == [kind |-> "none"]
Str(chars) == [kind |-> "str", chars |-> chars]

(***************************************************************************)
(* Configuration and transport.                                            *)
(***************************************************************************)
\* config.STORE_DOMAIN as imported into Product_Creator at load time.
STORE_DOMAIN == "store.example"
\* The canonical host the platform redirects to.
CanonHost == "canonical.example"

\* What the remote answers to one request: a success status, a non-success
\* status, a 3xx, or a transport/parsing exception raised by the call.  A
\* "redir_*" outcome is a 3xx on the first attempt followed by the named
\* outcome of the second attempt.
ReadOutcomes == {"ok", "err", "exc"}
WriteOutcomes == {"ok", "err", "exc", "redir_ok", "redir_err", "redir_exc"}

IsRedirect(o) == o \in {"redir_ok", "redir_err", "redir_exc"}
Final(o) == CASE o = "redir_ok" -> "ok"
              [] o = "redir_err" -> "err"
              [] o = "redir_exc" -> "exc"
              [] OTHER -> o
Cost(o) == CASE o = "ok" -> 0
             [] o \in {"redir_err", "redir_exc"} -> 2
             [] OTHER -> 1

\* One request as seen on the wire.  follow = "manual" is allow_redirects=False,
\* follow = "generic" leaves redirect-following to the transport library.
Call(step, op, method, host, follow, attempt, arg) ==
    [step |-> step, op |-> op, method |-> method, host |-> host,
     follow |-> follow, attempt |-> attempt, arg |-> arg]

\* requests.get(url): one request, redirects followed by the library.
Read(step, op, host, arg) ==
    <<Call(step, op, "GET", host, "generic", 1, arg)>>

\* The manual redirect idiom: the first attempt with allow_redirects=False; on
\* a 3xx the same method and payload are re-issued to the Location target.
ManualWrite(step, op, method, host, arg, o) ==
    IF IsRedirect(o)
    THEN <<Call(step, op, method, host, "manual", 1, arg),
           Call(step, op, method, CanonHost, "generic", 2, arg)>>
    ELSE <<Call(step, op, method, host, "manual", 1, arg)>>

\* requests.put/delete/post(url, ...) with the library default
\* (allow_redirects=True): a 3xx is followed by the library itself.
GenericWrite(step, op, method, host, arg) ==
    <<Call(step, op, method, host, "generic", 1, arg)>>

\* Whether a write left to the library's redirect-following reached the
\* platform as a write: a followed 3xx is re-issued as a read.
Applied(o) == o = "ok"

(***************************************************************************)
(* format_price                                                            *)
(***************************************************************************)
\* str(price): the text of a decimal number coef * 10^-scale, the text NaN or
\* Infinity, or text that is no number at all ("abc", "", "None").
Dec(coef, scale) == [kind |-> "decimal", coef |-> coef, scale |-> scale]
NaNText == [kind |-> "nan"]
InfinityText == [kind |-> "infinity"]
Text(chars) == [kind |-> "text", chars |-> chars]

RECURSIVE Pow10(_)
Pow10(n) == IF n = 0 THEN 1 ELSE 10 * Pow10(n - 1)

Abs(n) == IF n < 0 THEN 0 - n ELSE n

\* What a call ends with: a returned value or a raised exception.
Returned(value) == [kind |-> "returned", value |-> value]
Raised(exception) == [kind |-> "raised", exception |-> exception]

\* Decimal(str(price)): the exception the constructor raises, "" when it
\* constructs a value.  Text that is no number raises decimal.InvalidOperation,
\* an ArithmeticError.
DecimalRaises(price) == IF price.kind = "text" THEN "InvalidOperation" ELSE ""

\* The number of decimal digits of a natural number.
RECURSIVE Digits(_)
Digits(n) == IF n < 10 THEN 1 ELSE 1 + Digits(n \div 10)

\* The precision of the decimal context the module runs in (the default).
Precision == 28

\* The digits of the quantized coefficient of a decimal number, counted
\* without computing it: those before the point and the two after it.
QuantizedDigits(price) ==
    IF price.coef = 0 THEN 1
    ELSE IF Digits(Abs(price.coef)) - price.scale + 2 < 1 THEN 1
    ELSE Digits(Abs(price.coef)) - price.scale + 2

\* quantize(Decimal('0.01')) raises decimal.InvalidOperation on an infinity
\* and on a result with more digits than the precision of the context.
QuantizeRaises(price) ==
    CASE price.kind = "infinity" -> "InvalidOperation"
      [] price.kind = "decimal" /\ QuantizedDigits(price) > Precision -> "InvalidOperation"
      [] OTHER -> ""

\* The hundredths with the digits after the second cut off.
HundredthsTruncated(price) ==
    IF price.scale <= 2 THEN Abs(price.coef) * Pow10(2 - price.scale)
    ELSE Abs(price.coef) \div Pow10(price.scale - 2)

\* The hundredths of quantize(Decimal('0.01'), rounding=ROUND_HALF_UP), as a
\* magnitude: ties go away from zero.
Hundredths(price) ==
    IF price.scale <= 2 THEN Abs(price.coef) * Pow10(2 - price.scale)
    ELSE (Abs(price.coef) \div Pow10(price.scale - 2))
         + (IF 2 * (Abs(price.coef) % Pow10(price.scale - 2)) >= Pow10(price.scale - 2)
            THEN 1 ELSE 0)

\* str() of the quantized value: sign, units, a point, two digits.
Quantized(price) ==
    (IF price.coef < 0 THEN "-" ELSE "")
    \o ToString(Hundredths(price) \div 100) \o "."
    \o (IF Hundredths(price) % 100 < 10 THEN "0" ELSE "")
    \o ToString(Hundredths(price) % 100)

\* except (ValueError, TypeError)
PriceCaught(exception) == exception \in {"ValueError", "TypeError"}

format_price(price) ==
    CASE DecimalRaises(price) # "" ->
           IF PriceCaught(DecimalRaises(price)) THEN Returned(price)
           ELSE Raised(DecimalRaises(price))
      [] DecimalRaises(price) = "" /\ QuantizeRaises(price) # "" ->
           IF PriceCaught(QuantizeRaises(price)) THEN Returned(price)
           ELSE Raised(QuantizeRaises(price))
      [] OTHER ->
           IF price.kind = "nan" THEN Returned("NaN") ELSE Returned(Quantized(price))

(***************************************************************************)
(* Media identifiers and the remote media list.                            *)
(***************************************************************************)
\* A media id as supplied by the caller: a REST numeric id or a global id
\* "gid://shopify/<type>/<n>".
RestId(n) == [kind |-> "rest", n |-> n]
Gid(n) == [kind |-> "gid", n |-> n]

\* media_id.split('/')[-1] for a global id, str(media_id) otherwise.
NormalizeId(m) == m.n

Img(id, position, created_at) ==
    [id |-> id, position |-> position, created_at |-> created_at]

ImageIds(imgs) == [i \in DOMAIN imgs |-> imgs[i].id]

MaxOf(S) == IF S = {} THEN 0 ELSE CHOOSE m \in S : \A x \in S : x <= m

\* The platform assigns a fresh id, the next position and the current time.
AddImage(imgs, id) ==
    Append(imgs, Img(id,
                     MaxOf({imgs[i].position : i \in DOMAIN imgs}) + 1,
                     MaxOf({imgs[i].created_at : i \in DOMAIN imgs}) + 1))

FreshId(imgs) == MaxOf({imgs[i].id : i \in DOMAIN imgs}) + 10

RECURSIVE Flatten(_)
Flatten(ss) == IF ss = <<>> THEN <<>> ELSE Head(ss) \o Flatten(Tail(ss))

\* An entry of an errors list: the message kind and the item it names.
Err(what, item) == [what |-> what, item |-> item]

\* None as a shopify_domain argument.
NoDomain == ""
\* shopify_domain or STORE_DOMAIN
OrDefault(shopify_domain) ==
    IF shopify_domain = NoDomain THEN STORE_DOMAIN ELSE shopify_domain

\* Outcomes of a write whose redirects are left to the library: "redir" is a
\* 3xx the library followed on its own, answered with a success status.
GenericOutcomes == {"ok", "err", "exc", "redir"}
GFinal(o) == IF o = "redir" THEN "ok" ELSE o

(***************************************************************************)
(* manage_product_media                                                    *)
(***************************************************************************)
\* Every remote media item removed, whatever the keep list says.
MediaToRemoveAll(keep, imgs) == ImageIds(imgs)

\* keep_ids and media_to_remove
MediaToRemove(keep, imgs) ==
    LET keep_ids == {NormalizeId(keep[i]) : i \in DOMAIN keep}
        ids == ImageIds(imgs)
    IN  At(ids, {i \in DOMAIN ids : ids[i] \notin keep_ids})

manage_product_media(keep, imgs, oGet, oDel) ==
    LET fetch == Read("media", "prune_fetch", STORE_DOMAIN, 0)
    IN  CASE oGet = "exc" ->
               [calls |-> fetch, images |-> imgs,
                result |-> [success |-> FALSE, removed_count |-> 0,
                            errors |-> <<Err("Error managing product media", 0)>>]]
          [] oGet = "err" ->
               [calls |-> fetch, images |-> imgs,
                result |-> [success |-> FALSE, error |-> "Failed to get product"]]
          [] OTHER ->
               LET media_to_remove == MediaToRemove(keep, imgs)
                   n == Len(media_to_remove)
                   failed == {k \in 1..n : GFinal(oDel[k]) # "ok"}
                   gone == {media_to_remove[k] : k \in {j \in 1..n : Applied(oDel[j])}}
                   errors == At([k \in 1..n |->
                                   Err(IF oDel[k] = "exc" THEN "Error removing media"
                                       ELSE "Failed to remove media", media_to_remove[k])],
                                failed)
                   deletes == Flatten([k \in 1..n |->
                                GenericWrite("media", "delete", "DELETE", STORE_DOMAIN,
                                             media_to_remove[k])])
               IN  [calls |-> fetch \o deletes,
                    images |-> At(imgs, {i \in DOMAIN imgs : imgs[i].id \notin gone}),
                    result |-> [success |-> errors = <<>>,
                                removed_count |-> n - Cardinality(failed),
                                errors |-> errors]]

(***************************************************************************)
(* upload_media_to_product                                                 *)
(***************************************************************************)
\* The platform links each referenced media asset not yet on the product.
RECURSIVE AttachAll(_, _)
AttachAll(imgs, ids) ==
    IF ids = <<>> THEN imgs
    ELSE AttachAll(IF NormalizeId(Head(ids)) \in Range(ImageIds(imgs)) THEN imgs
                   ELSE AddImage(imgs, NormalizeId(Head(ids))),
                   Tail(ids))

\* The platform stores each accepted image file as a new image of the product.
RECURSIVE UploadedImages(_, _, _, _)
UploadedImages(files, oUp, k, imgs) ==
    IF k > Len(files) THEN imgs
    ELSE UploadedImages(files, oUp, k + 1,
                        IF Final(oUp[k]) = "ok" /\ files[k] = "image"
                        THEN AddImage(imgs, FreshId(imgs)) ELSE imgs)

\* str.strip() on a string given as its sequence of characters
RECURSIVE LStrip(_)
LStrip(cs) == IF cs # <<>> /\ Head(cs) = " " THEN LStrip(Tail(cs)) ELSE cs
RECURSIVE RStrip(_)
RStrip(cs) == IF cs # <<>> /\ cs[Len(cs)] = " " THEN RStrip(SubSeq(cs, 1, Len(cs) - 1))
              ELSE cs

\* c.isalnum(), on the characters the inputs are written with
Letters == {"B", "a", "r", "S", "K", "U", "N", "O", "b", "c", "d", "e", "g", "i",
            "m", "n", "o", "p", "s", "t", "v", "x"}
DigitChars == <<"0", "1", "2", "3", "4", "5", "6", "7", "8", "9">>
IsAlnum(c) == c \in Letters \cup Range(DigitChars)

\* str(i) of a natural number
RECURSIVE Decimal(_)
Decimal(n) == IF n < 10 THEN <<DigitChars[n + 1]>>
              ELSE Decimal(n \div 10) \o <<DigitChars[(n % 10) + 1]>>

\* while '__' in s: s = s.replace('__', '_')
RECURSIVE Collapse(_)
Collapse(cs) ==
    IF Len(cs) < 2 THEN cs
    ELSE IF cs[1] = "_" /\ cs[2] = "_" THEN Collapse(Tail(cs))
    ELSE <<cs[1]>> \o Collapse(Tail(cs))

\* s[:120]
NameLimit == 120
Truncated(cs) == SubSeq(cs, 1, IF Len(cs) < NameLimit THEN Len(cs) ELSE NameLimit)

\* _sanitize(value): letters, digits, space, dash and underscore are kept,
\* trailing blanks dropped, a space becomes an underscore, runs of
\* underscores collapse to one.
Keeps(c) == IsAlnum(c) \/ c \in {" ", "-", "_"}
Sanitize(value) ==
    LET kept == RStrip(SelectSeq(value, Keeps))
        replaced == [i \in DOMAIN kept |-> IF kept[i] = " " THEN "_" ELSE kept[i]]
    IN  Truncated(Collapse(replaced))

\* original_filename.split('.')[-1] if '.' in original_filename else ''
FileExtension(original_filename) ==
    IF "." \notin Range(original_filename) THEN <<>>
    ELSE LET last == CHOOSE i \in DOMAIN original_filename :
                         /\ original_filename[i] = "."
                         /\ \A j \in DOMAIN original_filename :
                                original_filename[j] = "." => j <= i
         IN  SubSeq(original_filename, last + 1, Len(original_filename))

NOSKU == <<"N", "O", "S", "K", "U">>

\* The sequence number counted from 0.
SequenceFromZero(i) == i

\* i+1 of the file at 0-based index i
SequenceNumber(i) == i + 1

\* filename of the file at 0-based index i
Filename(product_name, product_sku, original_filename, i) ==
    LET clean_name == Sanitize(product_name)
        clean_sku == IF Sanitize(product_sku) = <<>> THEN NOSKU
                     ELSE Sanitize(product_sku)
        file_extension == FileExtension(original_filename)
        base == IF clean_name # <<>>
                THEN clean_sku \o <<"_">> \o clean_name \o <<"_">>
                         \o Decimal(SequenceNumber(i))
                ELSE clean_sku \o <<"_">> \o Decimal(SequenceNumber(i))
    IN  IF file_extension # <<>> THEN base \o <<".">> \o file_extension ELSE base

\* content_type.startswith('video/')
VideoPrefix == <<"v", "i", "d", "e", "o", "/">>
is_video(content_type) ==
    /\ Len(content_type) >= Len(VideoPrefix)
    /\ SubSeq(content_type, 1, Len(VideoPrefix)) = VideoPrefix

\* The new files sent before the referenced media are linked.
UploadsThenAttach(attachCalls, uploads) == uploads \o attachCalls

\* The order of the function body: the link of the referenced media (the
\* block at "Attach existing Shopify media files FIRST"), then the loop over
\* the new files.
AttachThenUploads(attachCalls, uploads) == attachCalls \o uploads

upload_media_to_product(media_files, shopify_media_ids, shopify_domain, imgs, oAttach, oUp, oFetch) ==
    LET domain == OrDefault(shopify_domain)
        total_media == Len(media_files) + Len(shopify_media_ids)
        n == Len(media_files)
        attaching == shopify_media_ids # <<>>
        attachCalls == IF attaching
                       THEN ManualWrite("media", "attach", "POST", domain, 0, oAttach)
                       ELSE <<>>
        attachErrors == IF attaching /\ Final(oAttach) # "ok"
                        THEN <<Err(IF Final(oAttach) = "exc"
                                   THEN "Error attaching existing media files"
                                   ELSE "HTTP error", 0)>>
                        ELSE <<>>
        attached_media_count == IF attaching /\ Final(oAttach) = "ok"
                                THEN Len(shopify_media_ids) ELSE 0
        imgs1 == IF attached_media_count > 0 THEN AttachAll(imgs, shopify_media_ids)
                 ELSE imgs
        uploads == Flatten([k \in 1..n |->
                      ManualWrite("media",
                                  IF media_files[k] = "video" THEN "upload_video"
                                  ELSE "upload_image",
                                  "POST", domain, k, oUp[k])])
        failed == {k \in 1..n : Final(oUp[k]) # "ok"}
        uploadErrors == At([k \in 1..n |->
                              Err(IF Final(oUp[k]) = "exc" THEN "Error uploading media file"
                                  ELSE "Failed to upload", k)],
                           failed)
        imgs2 == UploadedImages(media_files, oUp, 1, imgs1)
        errors == attachErrors \o uploadErrors
    IN  IF total_media = 0
        THEN [calls |-> <<>>, images |-> imgs,
              result |-> [success |-> TRUE, message |-> "No media files to upload"]]
        ELSE [calls |-> AttachThenUploads(attachCalls, uploads)
                          \o Read("media", "post_upload_fetch", STORE_DOMAIN, 0),
              images |-> imgs2,
              result |-> [success |-> errors = <<>>,
                          success_count |-> attached_media_count + (n - Cardinality(failed)),
                          errors |-> errors,
                          product_images |-> IF oFetch = "ok" THEN imgs2 ELSE <<>>]]

(***************************************************************************)
(* reorder_product_media_by_order                                          *)
(***************************************************************************)
\* order_item.get('position') is None
NoPosition == 0
UploadItem(position) == [type |-> "upload", id |-> RestId(0), position |-> position]
ShopifyItem(id, position) == [type |-> "shopify", id |-> id, position |-> position]

\* The new uploads left in the order of the remote list.
Unsorted(s) == s

\* new_upload_images.sort(key=(created_at, id))
RECURSIVE SortByCreation(_)
SortByCreation(s) ==
    IF s = <<>> THEN <<>>
    ELSE LET m == CHOOSE i \in DOMAIN s : \A j \in DOMAIN s :
                     \/ s[i].created_at < s[j].created_at
                     \/ (s[i].created_at = s[j].created_at /\ s[i].id < s[j].id)
                     \/ (s[i].created_at = s[j].created_at /\ s[i].id = s[j].id /\ i <= j)
         IN  <<s[m]>> \o SortByCreation(At(s, DOMAIN s \ {m}))

NewUploadIds(keep, imgs) ==
    LET normalized_keep_ids == {NormalizeId(keep[i]) : i \in DOMAIN keep}
        new_upload_images == At(imgs, {i \in DOMAIN imgs :
                                         imgs[i].id \notin normalized_keep_ids})
    IN  ImageIds(SortByCreation(new_upload_images))

\* The first image of the list as it stands, whatever its position.
FirstListed(s) == s[1]

\* remaining_images.sort(key=position); remaining_images[0] (the sort is stable)
FirstByPosition(s) ==
    s[CHOOSE i \in DOMAIN s : \A j \in DOMAIN s :
          \/ s[i].position < s[j].position
          \/ (s[i].position = s[j].position /\ i <= j)]

\* position_map[position] = image_id
Put(pm, position, image_id) ==
    [p \in DOMAIN pm \cup {position} |-> IF p = position THEN image_id ELSE pm[p]]

\* The loop over media_order that fills position_map; up is
\* upload_positions_processed.
RECURSIVE BuildPositionMap(_, _, _, _, _, _)
BuildPositionMap(media_order, i, pm, up, imgs, new_upload_ids) ==
    IF i > Len(media_order) THEN pm
    ELSE
      LET order_item == media_order[i]
          position == IF order_item.position = NoPosition
                      THEN Cardinality(DOMAIN pm) + 1
                      ELSE order_item.position
          media_id == NormalizeId(order_item.id)
          remaining_images == At(imgs, {j \in DOMAIN imgs : imgs[j].id \notin Range(pm)})
      IN  CASE order_item.type = "shopify" /\ media_id \in Range(ImageIds(imgs)) ->
                 BuildPositionMap(media_order, i + 1, Put(pm, position, media_id), up,
                                  imgs, new_upload_ids)
            [] order_item.type = "upload" /\ up < Len(new_upload_ids) ->
                 BuildPositionMap(media_order, i + 1,
                                  Put(pm, position, new_upload_ids[up + 1]), up + 1,
                                  imgs, new_upload_ids)
            [] order_item.type = "upload" /\ up >= Len(new_upload_ids)
                 /\ remaining_images # <<>> ->
                 BuildPositionMap(media_order, i + 1,
                                  Put(pm, position, FirstByPosition(remaining_images).id),
                                  up + 1, imgs, new_upload_ids)
            [] OTHER ->
                 BuildPositionMap(media_order, i + 1, pm, up, imgs, new_upload_ids)

PositionMap(media_order, keep, imgs) ==
    BuildPositionMap(media_order, 1, <<>>, 0, imgs, NewUploadIds(keep, imgs))

\* The positions in descending order.
RECURSIVE SortedKeysDescending(_)
SortedKeysDescending(S) ==
    IF S = {} THEN <<>>
    ELSE LET m == CHOOSE x \in S : \A y \in S : x >= y
         IN  <<m>> \o SortedKeysDescending(S \ {m})

\* sorted(position_map.items()), as the sequence of positions
RECURSIVE SortedKeys(_)
SortedKeys(S) ==
    IF S = {} THEN <<>>
    ELSE LET m == CHOOSE x \in S : \A y \in S : x <= y
         IN  <<m>> \o SortedKeys(S \ {m})

\* The product's cover image left as it was.
NoCover == 0

\* The index of the first write that raises, or 0.
FirstRaise(o, n) ==
    IF \E k \in 1..n : Final(o[k]) = "exc"
    THEN CHOOSE k \in 1..n :
             Final(o[k]) = "exc" /\ \A j \in 1..(k - 1) : Final(o[j]) # "exc"
    ELSE 0

reorder_product_media_by_order(media_order, keep, shopify_domain, imgs, oGet, oPut, oCover) ==
    LET domain == OrDefault(shopify_domain)
        fetch == Read("media", "reorder_fetch", domain, 0)
        position_map == PositionMap(media_order, keep, imgs)
        positions == SortedKeys(DOMAIN position_map)
        n == Len(positions)
        raise == FirstRaise(oPut, n)
        last == IF raise = 0 THEN n ELSE raise
        writes == Flatten([k \in 1..last |->
                     ManualWrite("media", "position", "PUT", domain,
                                 position_map[positions[k]], oPut[k])])
        failed == {k \in 1..n : Final(oPut[k]) = "err"}
        errors == At([k \in 1..n |->
                        Err("Failed to reorder image", position_map[positions[k]])],
                     failed)
        cover == IF n > 0
                 THEN ManualWrite("media", "cover", "PUT", domain,
                                  position_map[positions[1]], oCover)
                 ELSE <<>>
    IN  CASE media_order = <<>> ->
               [calls |-> <<>>, position_map |-> <<>>, cover |-> NoCover,
                result |-> [success |-> TRUE, message |-> "No media order specified"]]
          [] media_order # <<>> /\ oGet = "err" ->
               [calls |-> fetch, position_map |-> <<>>, cover |-> NoCover,
                result |-> [success |-> FALSE, error |-> "Failed to get product"]]
          [] media_order # <<>> /\ oGet = "exc" ->
               [calls |-> fetch, position_map |-> <<>>, cover |-> NoCover,
                result |-> [success |-> FALSE,
                            errors |-> <<Err("Error reordering product media by order", 0)>>]]
          [] media_order # <<>> /\ oGet = "ok" /\ raise # 0 ->
               [calls |-> fetch \o writes, position_map |-> position_map,
                cover |-> NoCover,
                result |-> [success |-> FALSE,
                            errors |-> <<Err("Error reordering product media by order", 0)>>]]
          [] OTHER ->
               [calls |-> fetch \o writes \o cover, position_map |-> position_map,
                \* the platform designates the image the accepted update names
                cover |-> IF n > 0 /\ Final(oCover) = "ok"
                          THEN position_map[positions[1]] ELSE NoCover,
                result |-> [success |-> errors = <<>>, errors |-> errors]]

(***************************************************************************)
(* reorder_product_media (the fallback without media_order)                *)
(***************************************************************************)
reorder_product_media(shopify_media_ids_in_order, imgs, oGet, oPut) ==
    LET fetch == Read("media", "fallback_fetch", STORE_DOMAIN, 0)
        ids == [k \in DOMAIN shopify_media_ids_in_order |->
                  NormalizeId(shopify_media_ids_in_order[k])]
        \* enumerate(..., start=1) restricted to the ids found in image_map
        found == {k \in DOMAIN ids : ids[k] \in Range(ImageIds(imgs))}
        raising == {k \in found : oPut[k] = "exc"}
        raise == IF raising = {} THEN 0
                 ELSE CHOOSE k \in raising : \A j \in raising : k <= j
        done == IF raise = 0 THEN found ELSE {k \in found : k <= raise}
        writes == Flatten(At([k \in DOMAIN ids |->
                     GenericWrite("media", "fallback_position", "PUT", STORE_DOMAIN,
                                  ids[k])], done))
        failed == {k \in found : oPut[k] = "err"}
        errors == At([k \in DOMAIN ids |-> Err("Failed to reorder media", ids[k])], failed)
    IN  CASE shopify_media_ids_in_order = <<>> ->
               [calls |-> <<>>,
                result |-> [success |-> TRUE, message |-> "No media to reorder"]]
          [] shopify_media_ids_in_order # <<>> /\ oGet = "err" ->
               [calls |-> fetch,
                result |-> [success |-> FALSE, error |-> "Failed to get product"]]
          [] shopify_media_ids_in_order # <<>> /\ (oGet = "exc" \/ (oGet = "ok" /\ raise # 0)) ->
               [calls |-> IF oGet = "exc" THEN fetch ELSE fetch \o writes,
                result |-> [success |-> FALSE,
                            errors |-> <<Err("Error reordering product media", 0)>>]]
          [] OTHER ->
               [calls |-> fetch \o writes,
                result |-> [success |-> errors = <<>>, errors |-> errors]]

(***************************************************************************)
(* categories.py: the fixed vocabularies and the bucket choice sets.       *)
(***************************************************************************)
CATEGORIES ==
    << "All", "Latest", "Best Sellers", "Express", "Super Express", "Seasonal",
       "Themes", "Events & Charities", "Brands", "Eco",
       "Biscuits, Cakes & Pies", "Cereals & Cereal Bars", "Chewing Gum",
       "Chocolate", "Crisps", "Dried Fruits", "Drinks", "Flapjacks", "Honey",
       "Jams, Marmalades & Spreads", "Lollipops", "Popcorn", "Pretzels",
       "Protein", "Savoury Snacks", "Soup", "Sprinkles", "Sweets", "Mints",
       "Vegan", "Packaging" >>

SUBCATEGORIES ==
    << "Black Friday", "Christmas", "Easter", "Eid", "Halloween", "New Year",
       "Ramadan", "Summer", "Valentines Day", "Achievement", "Anniversary",
       "Appreciation", "Awards", "Back To School", "British", "Carnival",
       "Celebrations", "Community", "Countdown to Launch", "Customers",
       "Diversity & Inclusion", "Empowerment", "Football", "Heroes", "Ideas",
       "Loyalty", "Meet The Team", "Mental Health", "Milestones",
       "Product Launch", "Referral Rewards", "Sale", "Saver Offers", "Staff",
       "Success", "Support", "Sustainability", "Thank You", "University",
       "Volunteer", "Wellbeing", "We Miss You", "Cancer Research",
       "Careers Week", "Mental Health Awareness", "Movember", "Pride",
       "Volunteers Week", "Wimbledon", "World Bee Day",
       "World Blood Donor Day", "World Cup - Football", "World Cup - Rugby",
       "Cadbury", "Haribo", "Heinz", "Jordans", "Kelloggs", "Mars", "McVities",
       "Nature Valley", "Nestle", "Swizzels", "Walkers", "Biscuits - Box",
       "Biscuits - Single", "Cake - Box", "Cake Bars - Single",
       "Cakes - Round", "Cakes - Traybake", "Cupcakes - Box",
       "Cupcakes - Single", "Pies - Box", "Pies - Single", "Breakfast Cereals",
       "Cereal Bars", "Porridge", "Mint", "Balls", "Bars", "Coins", "Hearts",
       "Neapolitans", "Single Shapes", "Truffles", "Apricots", "Bananas",
       "Dates", "Coffee", "Fizzy", "Hot Chocolate", "Still", "Tea", "Water",
       "Marmalade", "Marmite", "Nutella", "Jams", "Chocolate", "Sugar",
       "Microwave", "Popped", "Nuts", "Bags", "Packs", "Shapes", "Vermicelli",
       "Boiled/Compressed", "Jellies", "Sweets", "Treats", "Bottle", "Card",
       "Card Box - A Box", "Card Box - Rectangle", "Card Box - Shape",
       "Card Box - Square", "Eco", "Header Card", "Jar", "Label", "Nets",
       "Organza Bag", "Popcorn Box", "Plastic Box", "Tin", "Tub", "Wrap" >>

SUBCATEGORY_2_FIRST_ITEM == "Sweets"

\* Window of the generic overflow buckets (subcategory_3, ...).
ChunkSize == 128

\* The boundary of a vocabulary without the sentinel.
BoundaryAtEnd == Len(SUBCATEGORIES)

\* SUBCATEGORIES.index(SUBCATEGORY_2_FIRST_ITEM), 0-based; len() if missing.
subcategory_2_start_index ==
    IF \E i \in DOMAIN SUBCATEGORIES : SUBCATEGORIES[i] = SUBCATEGORY_2_FIRST_ITEM
    THEN (CHOOSE i \in DOMAIN SUBCATEGORIES :
             /\ SUBCATEGORIES[i] = SUBCATEGORY_2_FIRST_ITEM
             /\ \A j \in 1..(i - 1) : SUBCATEGORIES[j] # SUBCATEGORY_2_FIRST_ITEM) - 1
    ELSE Len(SUBCATEGORIES)

\* A slice that is the whole list.
SliceWhole(s, a, b) == s

\* Python's s[a:b] on a list, 0-based and clipped.
Slice(s, a, b) ==
    LET lo == IF a < Len(s) THEN a ELSE Len(s)
        hi == IF b < Len(s) THEN b ELSE Len(s)
    IN  IF hi <= lo THEN <<>> ELSE [i \in 1..(hi - lo) |-> s[lo + i]]

\* The keys of the model's universe that start with "subcategory_", with the
\* integer after the last underscore.
OverflowNumber(key) == CASE key = "subcategory_2" -> 2
                         [] key = "subcategory_3" -> 3
                         [] OTHER -> 0
IsSubcategoryKey(key) == key = "subcategory" \/ OverflowNumber(key) # 0

get_metafield_choices(metafield_key) ==
    CASE metafield_key = "custom_category" -> CATEGORIES
      [] metafield_key = "subcategory" ->
           Slice(SUBCATEGORIES, 0, subcategory_2_start_index)
      [] metafield_key = "subcategory_2" ->
           Slice(SUBCATEGORIES, subcategory_2_start_index, Len(SUBCATEGORIES))
      [] OverflowNumber(metafield_key) > 2 ->
           Slice(SUBCATEGORIES, (OverflowNumber(metafield_key) - 1) * ChunkSize,
                 (OverflowNumber(metafield_key) - 1) * ChunkSize + ChunkSize)
      [] OTHER -> <<>>

\* The attribute keys of the model's universe, and the choice list of each.
MetafieldKeys == {"custom_category", "subcategory", "subcategory_2", "subcategory_3",
                  "sku", "material", "product_colours", "pricejsontr", "pricejsoner"}
Choices == [key \in MetafieldKeys |-> get_metafield_choices(key)]
Allowed == [key \in MetafieldKeys |-> Range(Choices[key])]

(***************************************************************************)
(* str.strip(), whitespace normalisation and str.lower() on labels.        *)
(***************************************************************************)
\* The three string functions, each given by its value on the labels of the
\* model's universe that it changes; every other label of the universe is
\* already stripped, normalised or lower-case.
StripLabel(s) == CASE s = " Bars " -> "Bars"
                   [] s = " Sweets" -> "Sweets"
                   [] s = "   " -> ""
                   [] OTHER -> s
\* " ".join(s.replace(nbsp, " ").split())
NormalizeSpaces(s) == CASE s = "Gift  Boxes" -> "Gift Boxes"
                        [] s = "Cake  -  Box" -> "Cake - Box"
                        [] s = "Card  Box - Square" -> "Card Box - Square"
                        [] s = "card  box - square" -> "card box - square"
                        [] OTHER -> s
LowerCase(s) == CASE s = "Bars" -> "bars"
                  [] s = "BARS" -> "bars"
                  [] s = "Sweets" -> "sweets"
                  [] s = "SWEETS" -> "sweets"
                  [] s = "Cake - Box" -> "cake - box"
                  [] s = "Card Box - Square" -> "card box - square"
                  [] s = "Gift Boxes" -> "gift boxes"
                  [] OTHER -> s

(***************************************************************************)
(* create_metafields                                                       *)
(***************************************************************************)
\* An attribute value: a blank string, a non-blank string that is no JSON
\* array, a string that is a JSON array, a Python list, or None.
Blank == [kind |-> "blank"]
Scalar(s) == [kind |-> "scalar", s |-> s]
JsonArray(items) == [kind |-> "array", items |-> items]
PyList(items) == [kind |-> "pylist", items |-> items]

ListType == "list.single_line_text_field"
TextType == "single_line_text_field"
\* mf_type.startswith('list.')
IsListType(mf_type) == mf_type = ListType

Metafield(namespace, key, value, type) ==
    [namespace |-> namespace, key |-> key, value |-> value, type |-> type]

\* The value normalisation before the write.
FormatValue(raw_value, mf_type) ==
    LET wrapped == IF IsListType(mf_type) /\ raw_value.kind = "scalar"
                   THEN JsonArray(<<raw_value.s>>) ELSE raw_value
    IN  IF ~IsListType(mf_type)
        THEN (IF wrapped.kind \in {"blank", "none"} THEN Scalar("-") ELSE wrapped)
        ELSE (IF wrapped.kind = "blank" \/ (wrapped.kind = "array" /\ wrapped.items = <<>>)
              THEN JsonArray(<<"-">>) ELSE wrapped)

\* Whether the pre-send choice filter applies to this attribute.
Filtered(mf) ==
    /\ IsListType(mf.type)
    /\ mf.namespace = "custom"
    /\ IsSubcategoryKey(mf.key)
    /\ Choices[mf.key] # <<>>
    /\ FormatValue(mf.value, mf.type).kind \in {"array", "pylist"}

\* The choice filter that lets every value through.
FilterNothing(items, allowed) == items

\* filtered = [v for v in parsed if str(v).strip() in allowed]
FilterChoices(items, allowed) ==
    At(items, {i \in DOMAIN items : StripLabel(items[i]) \in allowed})

\* _match_choice: the stripped value when the platform lists it, else the
\* platform's own string that equals it up to surrounding blanks and case,
\* else None ("").
MatchChoice(v, allowed) ==
    IF StripLabel(v) \in allowed THEN StripLabel(v)
    ELSE IF \E a \in allowed : \/ StripLabel(a) = StripLabel(v)
                               \/ LowerCase(StripLabel(a)) = LowerCase(StripLabel(v))
         THEN CHOOSE a \in allowed : \/ StripLabel(a) = StripLabel(v)
                                     \/ LowerCase(StripLabel(a)) = LowerCase(StripLabel(v))
         ELSE ""

\* The retry resending the values it was refused.
RefilterNothing(items, allowed) == items

\* filtered, as the retry builds it from the choices parsed from the error
Refilter(items, allowed) ==
    At([i \in DOMAIN items |-> MatchChoice(items[i], allowed)],
       {i \in DOMAIN items : MatchChoice(items[i], allowed) # ""})

Identity(mf) == <<mf.namespace, mf.key>>

\* Every write carrying the whole attribute.
PayloadWhole(mf, existing_id, value) ==
    [namespace |-> mf.namespace, key |-> mf.key, value |-> value, type |-> mf.type]

\* payload: an update carries the value only, a create the whole attribute
Payload(mf, existing_id, value) ==
    IF existing_id THEN [value |-> value]
    ELSE [namespace |-> mf.namespace, key |-> mf.key, value |-> value,
          type |-> mf.type]

\* The attribute collection of the product, as the target of a create.
Collection == <<>>
\* url and payload of a write: an update is addressed to the attribute it
\* found, a create to the collection.
Wire(mf, existing_id, value) ==
    [url |-> IF existing_id THEN Identity(mf) ELSE Collection,
     payload |-> Payload(mf, existing_id, value)]

\* The value the first attempt carries.
SentValue(mf) ==
    LET formatted_value == FormatValue(mf.value, mf.type)
    IN  IF Filtered(mf)
        THEN JsonArray(FilterChoices(formatted_value.items, Allowed[mf.key]))
        ELSE formatted_value

\* if not filtered: continue
Skipped(mf) == Filtered(mf) /\ SentValue(mf).items = <<>>

MetafieldOutcomes == WriteOutcomes \cup {"conflict"}

\* One iteration of the loop over metafields_data.  existing is the set of
\* identities found by the initial fetch, remote the identities the platform
\* holds, o the answer to the write, oRetry the answer to the retry and
\* remote_choices the choice list the platform names in a 422 conflict.
WriteMetafield(mf, k, existing, remote, domain, o, oRetry, remote_choices) ==
    LET existing_id == Identity(mf) \in existing
        method == IF existing_id THEN "PUT" ELSE "POST"
        first == ManualWrite("attributes", IF existing_id THEN "metafield_update"
                                           ELSE "metafield_create",
                             method, domain, Wire(mf, existing_id, SentValue(mf)),
                             IF o = "conflict" THEN "err" ELSE o)
        \* the platform refuses a second create of an identity it holds (422)
        status == IF ~existing_id /\ Identity(mf) \in remote /\ Final(o) = "ok"
                  THEN "err" ELSE Final(o)
        retryable == /\ status = "conflict"
                     /\ IsListType(mf.type) /\ mf.namespace = "custom"
                     /\ IsSubcategoryKey(mf.key)
                     /\ SentValue(mf).kind \in {"array", "pylist"}
        refiltered == IF retryable
                      THEN Refilter(SentValue(mf).items, remote_choices)
                      ELSE <<>>
        retried == retryable /\ refiltered # <<>>
        retry == IF retried
                 THEN GenericWrite("attributes", "metafield_retry", method, domain,
                                   Wire(mf, existing_id, JsonArray(refiltered)))
                 ELSE <<>>
        success == status = "ok" \/ (retried /\ GFinal(oRetry) = "ok")
    IN  [calls |-> first \o retry,
         success |-> success,
         errors |-> IF success THEN <<>>
                    ELSE <<Err(IF status = "exc" THEN "Error creating metafield"
                               ELSE "Failed to create metafield", k)>>,
         remote |-> IF success THEN remote \cup {Identity(mf)} ELSE remote]

\* The running totals of the loop after one more write.
Accumulate(acc, w) ==
    [calls |-> acc.calls \o w.calls,
     success_count |-> acc.success_count + (IF w.success THEN 1 ELSE 0),
     errors |-> acc.errors \o w.errors,
     remote |-> w.remote]

\* The loop giving up at the first failed write.
RECURSIVE MetafieldLoopStopping(_, _, _, _, _, _, _, _)
MetafieldLoopStopping(mfs, k, acc, existing, domain, oW, oRetry, remote_choices) ==
    IF k > Len(mfs) \/ acc.errors # <<>> THEN acc
    ELSE IF Skipped(mfs[k])
         THEN MetafieldLoopStopping(mfs, k + 1, acc, existing, domain, oW, oRetry,
                                    remote_choices)
         ELSE MetafieldLoopStopping(mfs, k + 1,
                                    Accumulate(acc, WriteMetafield(mfs[k], k, existing,
                                                                   acc.remote, domain,
                                                                   oW[k], oRetry,
                                                                   remote_choices)),
                                    existing, domain, oW, oRetry, remote_choices)

RECURSIVE MetafieldLoop(_, _, _, _, _, _, _, _)
MetafieldLoop(mfs, k, acc, existing, domain, oW, oRetry, remote_choices) ==
    IF k > Len(mfs) THEN acc
    ELSE IF Skipped(mfs[k])
         THEN MetafieldLoop(mfs, k + 1, acc, existing, domain, oW, oRetry,
                            remote_choices)
         ELSE MetafieldLoop(mfs, k + 1,
                            Accumulate(acc, WriteMetafield(mfs[k], k, existing,
                                                           acc.remote, domain, oW[k],
                                                           oRetry, remote_choices)),
                            existing, domain, oW, oRetry, remote_choices)

\* return {"success": len(errors) == 0, "success_count": ..., "errors": errors}
MetafieldsResult(loop) ==
    [calls |-> loop.calls,
     remote |-> loop.remote,
     result |-> [success |-> loop.errors = <<>>,
                 success_count |-> loop.success_count,
                 errors |-> loop.errors]]

create_metafields(metafields_data, shopify_domain, remote, oGet, oW, oRetry, remote_choices) ==
    MetafieldsResult(
        MetafieldLoop(metafields_data, 1,
                      [calls |-> Read("attributes", "metafields_fetch",
                                      OrDefault(shopify_domain), 0),
                       success_count |-> 0, errors |-> <<>>, remote |-> remote],
                      IF oGet = "ok" THEN remote ELSE {},
                      OrDefault(shopify_domain), oW, oRetry, remote_choices))

(***************************************************************************)
(* update_product_taxable                                                  *)
(***************************************************************************)
\* A variant of the product as the platform returns it.
Variant(id, taxable) == [id |-> id, taxable |-> taxable]

\* The variants left as they were read.
Untouched(variants, taxable) == variants

\* for variant in variants: variant["taxable"] = taxable
WithTaxable(variants, taxable) ==
    [i \in DOMAIN variants |-> [variants[i] EXCEPT !.taxable = taxable]]

update_product_taxable(taxable, variants, oGet, oPut) ==
    LET fetch == Read("tax", "tax_fetch", STORE_DOMAIN, 0)
        update == GenericWrite("tax", "tax_update", "PUT", STORE_DOMAIN,
                               [variants |-> WithTaxable(variants, taxable)])
    IN  IF oGet # "ok"
        THEN [calls |-> fetch, result |-> FALSE]
        ELSE [calls |-> fetch \o update, result |-> GFinal(oPut) = "ok"]

(***************************************************************************)
(* categories.get_subcategory_metafield_key                                *)
(***************************************************************************)
\* list.index(x) as a 1-based position, 0 when x is not in the list
IndexOf(s, x) ==
    IF \E i \in DOMAIN s : s[i] = x
    THEN CHOOSE i \in DOMAIN s : s[i] = x /\ \A j \in 1..(i - 1) : s[j] # x
    ELSE 0

\* Every label routed to the overflow bucket.
BucketAlwaysOverflow(subcategory) == "subcategory_2"
\* Every label routed to the primary bucket.
BucketAlwaysPrimary(subcategory) == "subcategory"

get_subcategory_metafield_key(subcategory) ==
    LET s == StripLabel(subcategory)
        s_norm == NormalizeSpaces(s)
        s_lower == LowerCase(s_norm)
        loose == {i \in DOMAIN SUBCATEGORIES :
                     \/ NormalizeSpaces(SUBCATEGORIES[i]) = s_norm
                     \/ LowerCase(NormalizeSpaces(SUBCATEGORIES[i])) = s_lower}
        index == CASE IndexOf(SUBCATEGORIES, s) # 0 -> IndexOf(SUBCATEGORIES, s)
                   [] IndexOf(SUBCATEGORIES, s) = 0 /\ IndexOf(SUBCATEGORIES, s_norm) # 0 ->
                        IndexOf(SUBCATEGORIES, s_norm)
                   [] OTHER -> IF loose = {} THEN 0
                               ELSE CHOOSE i \in loose : \A j \in loose : i <= j
    IN  IF s = "" \/ index = 0 THEN "subcategory"
        ELSE IF index - 1 < subcategory_2_start_index THEN "subcategory"
        ELSE "subcategory_2"

(***************************************************************************)
(* create_product: the attribute list handed to create_metafields.         *)
(***************************************************************************)
\* list(dict.fromkeys(s))
RECURSIVE Dedupe(_)
Dedupe(s) ==
    IF s = <<>> THEN <<>>
    ELSE LET rest == Dedupe(SubSeq(s, 1, Len(s) - 1))
         IN  IF s[Len(s)] \in Range(rest) THEN rest ELSE Append(rest, s[Len(s)])

\* arr: the labels an attribute of the input list carries
ValueLabels(value) ==
    CASE value.kind \in {"array", "pylist"} ->
           At(value.items, {i \in DOMAIN value.items : value.items[i] # ""})
      [] value.kind = "scalar" -> <<value.s>>
      [] OTHER -> <<>>

\* cats_from_mf when key = "custom_category", subcats_from_mf when the key
\* starts with "subcategory"
LabelsFrom(metafields, wanted) ==
    Flatten([i \in DOMAIN metafields |->
               IF metafields[i].namespace = "custom" /\ metafields[i].key \in wanted
               THEN ValueLabels(metafields[i].value) ELSE <<>>])

MergedCategories(pd) ==
    LET cats_from_mf == LabelsFrom(pd.metafields, {"custom_category"})
    IN  IF pd.categories # <<>> THEN pd.categories ELSE Dedupe(cats_from_mf)

MergedSubcategories(pd) ==
    LET subcats_from_mf == LabelsFrom(pd.metafields, {k \in MetafieldKeys : IsSubcategoryKey(k)})
        own == IF pd.subcategories # <<>> THEN pd.subcategories
               ELSE Dedupe(subcats_from_mf)
    IN  IF subcats_from_mf # <<>> THEN Dedupe(own \o subcats_from_mf) ELSE own

\* by_key, as the bucket keys in first-seen order
RoutedKeys(subcategories) ==
    Dedupe([i \in DOMAIN subcategories |->
              get_subcategory_metafield_key(subcategories[i])])

\* [s for s in subcategories if str(s).strip()]
NonBlank(labels) == At(labels, {i \in DOMAIN labels : labels[i] # ""})

\* The list without its category entries, then the one merged category entry.
WithCategory(metafields, categories) ==
    At(metafields, {i \in DOMAIN metafields :
         ~(metafields[i].namespace = "custom" /\ metafields[i].key = "custom_category")})
    \o (IF categories # <<>>
        THEN <<Metafield("custom", "custom_category", JsonArray(categories), ListType)>>
        ELSE <<>>)

\* The list without its subcategory entries, then one entry per bucket key.
RoutedBy(metafields, subcategories, keys) ==
    IF subcategories = <<>> THEN metafields
    ELSE At(metafields, {i \in DOMAIN metafields :
              ~(metafields[i].namespace = "custom"
                /\ IsSubcategoryKey(metafields[i].key))})
         \o [k \in DOMAIN keys |->
               Metafield("custom", keys[k],
                         JsonArray(At(subcategories,
                            {i \in DOMAIN subcategories :
                               get_subcategory_metafield_key(subcategories[i])
                                 = keys[k]})),
                         ListType)]

HasKey(metafields, key) == \E i \in DOMAIN metafields : metafields[i].key = key

\* product_colours, and the price-band defaults an item with colours needs.
WithColours(metafields, product_colours) ==
    IF product_colours = "" THEN metafields
    ELSE metafields
         \o <<Metafield("custom", "product_colours", Scalar(product_colours), TextType)>>
         \o (IF HasKey(metafields, "pricejsontr") THEN <<>>
             ELSE <<Metafield("custom", "pricejsontr", Scalar("default band"),
                              TextType)>>)
         \o (IF HasKey(metafields, "pricejsoner") THEN <<>>
             ELSE <<Metafield("custom", "pricejsoner", Scalar("default band"),
                              TextType)>>)

Routed(metafields, subcategories) ==
    RoutedBy(metafields, subcategories, RoutedKeys(subcategories))

BuildMetafields(pd) ==
    WithColours(Routed(WithCategory(pd.metafields, MergedCategories(pd)),
                       NonBlank(MergedSubcategories(pd))),
                pd.product_colours)

(***************************************************************************)
(* create_product: inputs, remote answers and state.                       *)
(***************************************************************************)
\* The title check without strip().
StripNothing(cs) == cs
\* str.strip()
Strip(cs) == RStrip(LStrip(cs))

TitleInputs == {Absent, NoneVal, Str(<<>>), Str(<<" ", " ">>),
                Str(<<" ", "B", "a", "r", " ">>)}

\* product_data.get("title", "")
TitleOrDefault(title) == IF title.kind = "absent" THEN Str(<<>>) ELSE title

\* product_data.get("product_id"): None, or the id of an existing product
NoId == ""
ProductIdInputs == {NoId, "p-existing"}

\* charge_vat: absent (defaults to True) or a boolean
PyBool(b) == [kind |-> "bool", b |-> b]
ChargeVatInputs == {Absent, PyBool(FALSE)}
Taxable(charge_vat_raw) ==
    IF charge_vat_raw.kind = "absent" THEN TRUE ELSE charge_vat_raw.b

FileSeqs == UNION {[1..n -> {"image", "video"}] : n \in 0..MaxFiles}
KeepInputs == {<<>>, <<RestId(1)>>}
MediaOrderInputs == {<<>>, <<UploadItem(1), ShopifyItem(RestId(1), 2)>>}

\* The attribute-shaped part of the request.
AttributeInputs ==
    {[metafields |-> <<>>, categories |-> <<>>, subcategories |-> <<>>,
      product_colours |-> ""],
     [metafields |-> <<Metafield("custom", "material", Scalar("card"), TextType)>>,
      categories |-> <<"Chocolate">>, subcategories |-> <<"Bars">>,
      product_colours |-> ""]}

\* product_data.get("price", "0.00"), as the text str() gives
PriceInputs == {Dec(2, 0), Text(<<"a", "b", "c">>)}

ProductData ==
    [title : TitleInputs, product_id : ProductIdInputs, charge_vat : ChargeVatInputs,
     price : PriceInputs,
     sku : {"", "SKU1"}, media_files : FileSeqs, shopify_media_ids : KeepInputs,
     media_order : MediaOrderInputs, attributes : AttributeInputs]

\* A product entity of the platform; age is the time since created_at in
\* seconds.
Product(id, title, age) == [id |-> id, title |-> title, age |-> age]
OneMinute == 60
\* The recent lookup without its one-minute window.
RecentAnyAge(p) == TRUE
\* created_at.replace(tzinfo=None) >= one_minute_ago
Recent(p) == p.age <= OneMinute

\* The media already on the product of an update run.
RemoteImageInputs == {<<>>, <<Img(1, 1, 1), Img(2, 2, 2)>>}
\* The attribute identities already on the product of an update run.
RemoteMetafieldInputs == {{}, {<<"custom", "subcategory">>}}

\* response and result of the core write, with the product lists its two
\* lookups yielded.
Response(status, body, search, recent) ==
    [status |-> status, body |-> body, search |-> search, recent |-> recent]
NoResponse == [status |-> "none"]

\* No helper has been called on its own.
Idle == [fn |-> "none"]

NotRun == [kind |-> "notrun"]
Running == [kind |-> "running"]
Failure(error) == [success |-> FALSE, error |-> error]

VARIABLES
    pc,                     \* the step create_product is about to run
    product_data,           \* the request
    calls,                  \* the requests issued so far, in order
    faults,                 \* remote answers other than a plain success so far
    ret,                    \* what create_product returned
    actual_shopify_domain,  \* the host discovered from a redirect of the core write
    product,                \* the product entity the run works on
    images,                 \* the remote media of that product
    remote_metafields,      \* the attribute identities the platform holds for it
    config_STORE_DOMAIN,    \* config.STORE_DOMAIN
    pb_STORE_DOMAIN,        \* Price_Bandit.STORE_DOMAIN
    manage_results,         \* result of manage_product_media
    media_results,          \* result of upload_media_to_product
    reorder_results,        \* result of the reorder call
    metafield_results,      \* result of create_metafields
    price_bandit,           \* outcome of the collaborator call
    response,               \* the answer to the core write and to its lookups
    verification,           \* what the verification read yielded
    unit                    \* a helper called on its own: its arguments and outcome

vars == <<pc, product_data, calls, faults, ret, actual_shopify_domain, product, images,
          remote_metafields, config_STORE_DOMAIN, pb_STORE_DOMAIN, manage_results,
          media_results, reorder_results, metafield_results, price_bandit, response,
          verification, unit>>

existing_product_id == product_data.product_id
is_updating == existing_product_id # NoId
expected_title == Strip(TitleOrDefault(product_data.title).chars)
has_new_media == Len(product_data.media_files) > 0
variant_price == format_price(product_data.price)

\* A number the request supplies (None when it does not).
Num(n) == [kind |-> "int", n |-> n]

\* The fields of variant_payload: the SKU only when it is not empty, the
\* weight only when it is greater than 0, the quantity only when it is
\* supplied.
VariantKeys(sku, weight, inventory_qty) ==
    {"price", "requires_shipping"}
    \cup (IF sku # "" THEN {"sku"} ELSE {})
    \cup (IF weight > 0 THEN {"weight"} ELSE {})
    \cup (IF inventory_qty.kind # "none" THEN {"inventory_quantity"} ELSE {})

VariantPayload(price, sku, weight, inventory_qty) ==
    [k \in VariantKeys(sku, weight, inventory_qty) |->
        CASE k = "price" -> price
          [] k = "requires_shipping" -> TRUE
          [] k = "sku" -> sku
          [] k = "weight" -> weight
          [] OTHER -> inventory_qty.n]

\* An update that keeps the variants in its payload.
ProductKeysWithVariants(updating) ==
    {"title", "body_html", "status", "tags", "variants"}

\* The fields of payload["product"]: an update (PUT) drops the variants.
ProductKeys(updating) ==
    {"title", "body_html", "status", "tags"}
    \cup (IF updating THEN {} ELSE {"variants"})

ProductPayload(updating, title, description, status, tags, variant) ==
    [k \in ProductKeys(updating) |->
        CASE k = "title" -> title
          [] k = "body_html" -> description
          [] k = "status" -> status
          [] k = "tags" -> tags
          [] OTHER -> <<variant>>]

\* variant_payload of a request without weight and quantity
variant_payload == VariantPayload(variant_price.value, product_data.sku, 0, NoneVal)

\* payload of a request without description, status and tags
payload ==
    ProductPayload(is_updating, expected_title, "", "active", "", variant_payload)
total_media == Len(product_data.media_files) + Len(product_data.shopify_media_ids)

Init ==
    /\ pc = "start"
    /\ product_data \in ProductData
    /\ calls = <<>>
    /\ faults = 0
    /\ ret = Running
    /\ actual_shopify_domain = NoDomain
    /\ product = Product(NoId, <<>>, 0)
    /\ images \in RemoteImageInputs
    /\ remote_metafields \in RemoteMetafieldInputs
    /\ (product_data.product_id = NoId => images = <<>> /\ remote_metafields = {})
    /\ config_STORE_DOMAIN = STORE_DOMAIN
    /\ pb_STORE_DOMAIN = STORE_DOMAIN
    /\ manage_results = NotRun
    /\ media_results = NotRun
    /\ reorder_results = NotRun
    /\ metafield_results = NotRun
    /\ price_bandit = "notrun"
    /\ response = NoResponse
    /\ verification = "notrun"
    /\ unit = Idle

\* The environment may spend `cost` more of the fault budget.
Within(cost) == faults + cost <= MaxFaults
\* What is left of the fault budget, and the answers it affords.
Left == MaxFaults - faults
Afford(S, budget) == {o \in S : Cost(o) <= budget}
\* The answers to the n requests of a loop that the budget affords.
RECURSIVE Answers(_, _, _)
Answers(n, S, budget) ==
    IF n = 0 THEN {<<>>}
    ELSE UNION {{Append(f, o) : f \in Answers(n - 1, S, budget - Cost(o))} :
                  o \in Afford(S, budget)}

\* The outer `except Exception` of create_product.
Raise(error) ==
    /\ ret' = Failure(error)
    /\ pc' = "done"

\* An early `return {"success": False, "error": ...}`.
Fail(error) ==
    /\ ret' = Failure(error)
    /\ pc' = "done"

\* results['errors'] of a result without that key raises KeyError
MissingErrors(r) == ~r.success /\ "errors" \notin DOMAIN r

(***************************************************************************)
(* create_product, step 1: validate, write the core fields, settle which   *)
(* product the answer names.                                               *)
(***************************************************************************)
Validate ==
    /\ pc = "start"
    /\ IF product_data.title.kind = "none"
       THEN Raise("Error creating product")
       ELSE IF expected_title = <<>>
            THEN Fail("Product title is required and cannot be empty")
            ELSE IF variant_price.kind = "raised"
                 THEN Raise("Error creating product")
                 ELSE pc' = "write" /\ ret' = ret
    /\ UNCHANGED <<unit, response, verification, product_data, calls, faults, actual_shopify_domain, product, images,
                   remote_metafields, config_STORE_DOMAIN, pb_STORE_DOMAIN,
                   manage_results, media_results, reorder_results, metafield_results,
                   price_bandit>>

\* The product this run's write creates or updates.
Own == Product(IF is_updating THEN existing_product_id ELSE "p-new", expected_title, 0)
\* Another product of the store with a different title.
Other == Product("p-other", <<"X">>, 500)
\* A same-titled product created more than a minute ago.
Old == Product("p-old", expected_title, 90)
\* A same-titled product another process created within the last minute.
Twin == Product("p-twin", expected_title, 10)

\* The JSON bodies the platform may answer the core write with.
\* shape: the body is no JSON, or holds "product", "products" or neither;
\* errors: whether it holds an "errors" field.
Body(shape, errors, p, list) ==
    [shape |-> shape, errors |-> errors, product |-> p, list |-> list]
CoreBodies ==
    {Body("product", FALSE, Own, <<>>),
     Body("product", FALSE, Product(NoId, expected_title, 0), <<>>),
     Body("product", FALSE, Other, <<>>),
     Body("products", FALSE, Own, <<>>),
     Body("products", FALSE, Own, <<Other>>),
     Body("products", FALSE, Own, <<Other, Own>>),
     Body("badjson", FALSE, Own, <<>>),
     Body("product", TRUE, Own, <<>>),
     Body("neither", TRUE, Own, <<>>),
     Body("neither", FALSE, Own, <<>>)}
BodyCost(body) ==
    IF body.shape = "product" /\ ~body.errors /\ body.product = Own THEN 0 ELSE 1

\* response.json() raises
Unparseable(body) == body.shape = "badjson"
\* The errors field of the body left unread.
HasErrorsUnread(body) == FALSE
\* "errors" in result
HasErrors(body) == body.errors

SearchLists == {<<>>, <<Other>>, <<Other, Own>>, <<Old, Own>>}
RecentLists == {<<>>, <<Old>>, <<Other, Own>>, <<Twin, Own>>}

NoMatch == NoneVal
\* The first entry of a product list satisfying the test, or None.
FirstMatch(list, wanted) ==
    IF \E i \in DOMAIN list : list[i] \in wanted
    THEN list[CHOOSE i \in DOMAIN list :
                list[i] \in wanted /\ \A j \in 1..(i - 1) : list[j] \notin wanted]
    ELSE NoMatch

\* The lookups of a create run answered with a list: the response list, then
\* the title search, then the products created within the last minute.
InList(list) == FirstMatch(list, {p \in Range(list) : p.title = expected_title})
Searched(list) == InList(list) = NoMatch
BySearch(oSearch, search_list) ==
    IF oSearch = "ok" THEN FirstMatch(search_list, {p \in Range(search_list) : p.title = expected_title})
    ELSE NoMatch
Recented(list, oSearch, search_list) ==
    Searched(list) /\ BySearch(oSearch, search_list) = NoMatch
ByRecent(oRecent, recent_list) ==
    IF oRecent = "ok"
    THEN FirstMatch(recent_list,
                    {p \in Range(recent_list) : Recent(p) /\ p.title = expected_title})
    ELSE NoMatch

CreateLookup(list, oSearch, search_list, oRecent, recent_list) ==
    CASE ~Searched(list) -> InList(list)
      [] Searched(list) /\ ~Recented(list, oSearch, search_list) ->
           BySearch(oSearch, search_list)
      [] OTHER -> ByRecent(oRecent, recent_list)

LookupCalls(list, oSearch, search_list) ==
    (IF Searched(list) THEN Read("core", "title_search", STORE_DOMAIN, 0) ELSE <<>>)
    \o (IF Recented(list, oSearch, search_list)
        THEN Read("core", "recent_lookup", STORE_DOMAIN, 0) ELSE <<>>)

\* The list handling of an update run: by title and id, then by id.
UpdateLookup(list) ==
    IF \E p \in Range(list) : p.title = expected_title /\ p.id = existing_product_id
    THEN FirstMatch(list, {p \in Range(list) : /\ p.title = expected_title
                                               /\ p.id = existing_product_id})
    ELSE FirstMatch(list, {p \in Range(list) : p.id = existing_product_id})

\* product, as settled from the parsed body; NoMatch when there is none.
Settled(body, oSearch, search_list, oRecent, recent_list) ==
    CASE body.shape = "product" -> body.product
      [] body.shape = "products" /\ ~is_updating ->
           CreateLookup(body.list, oSearch, search_list, oRecent, recent_list)
      [] body.shape = "products" /\ is_updating -> UpdateLookup(body.list)
      [] OTHER -> NoMatch

CoreWrite ==
    /\ pc = "write"
    /\ \E o \in Afford(WriteOutcomes, Left) :
       \* answers that are never read are fixed, so each run is drawn once
       \E body \in (IF Final(o) = "ok"
                    THEN {b \in CoreBodies : BodyCost(b) <= Left - Cost(o)}
                    ELSE {b \in CoreBodies : BodyCost(b) = 0}) :
       \E spent \in {Cost(o) + (IF Final(o) = "ok" THEN BodyCost(body) ELSE 0)} :
       \E parsed \in {Final(o) = "ok" /\ ~Unparseable(body) /\ ~HasErrors(body)} :
       \E looking \in {parsed /\ body.shape = "products" /\ ~is_updating} :
       \E searching \in {looking /\ Searched(body.list)} :
       \E oSearch \in (IF searching THEN Afford(ReadOutcomes, Left - spent)
                       ELSE {"ok"}) :
       \E search_list \in (IF searching /\ oSearch = "ok" THEN SearchLists
                           ELSE {<<>>}) :
       \E recenting \in {looking /\ Recented(body.list, oSearch, search_list)} :
       \E oRecent \in (IF recenting
                       THEN Afford(ReadOutcomes, Left - spent - Cost(oSearch))
                       ELSE {"ok"}) :
       \E recent_list \in (IF recenting /\ oRecent = "ok" THEN RecentLists
                           ELSE {<<>>}) :
       \E found \in {Settled(body, oSearch, search_list, oRecent, recent_list)} :
         /\ Within(spent + Cost(oSearch) + Cost(oRecent))
         /\ faults' = faults + spent + Cost(oSearch) + Cost(oRecent)
         /\ calls' = calls
                       \o ManualWrite("core", "product_write",
                                      IF is_updating THEN "PUT" ELSE "POST",
                                      STORE_DOMAIN, payload, o)
                       \o (IF looking THEN LookupCalls(body.list, oSearch, search_list)
                           ELSE <<>>)
         /\ actual_shopify_domain' = IF IsRedirect(o) THEN CanonHost ELSE NoDomain
         /\ response' = Response(Final(o), body, search_list, recent_list)
         /\ CASE Final(o) = "exc" ->
                   Raise("Error creating product") /\ product' = product
              [] Final(o) = "err" ->
                   Fail("Shopify API returned status") /\ product' = product
              [] Final(o) = "ok" /\ Unparseable(body) ->
                   Fail("Failed to parse Shopify API response") /\ product' = product
              [] Final(o) = "ok" /\ ~Unparseable(body) /\ HasErrors(body) ->
                   Fail("Shopify API returned errors") /\ product' = product
              [] parsed /\ found = NoMatch ->
                   Fail("No product in the response") /\ product' = product
              [] parsed /\ found # NoMatch /\ found.id = NoId ->
                   Fail("Response does not contain a product ID") /\ product' = product
              [] OTHER ->
                   /\ product' = found
                   /\ pc' = "sku"
                   /\ ret' = ret
    /\ UNCHANGED <<unit, verification, product_data, images, remote_metafields,
                   config_STORE_DOMAIN, pb_STORE_DOMAIN, manage_results, media_results,
                   reorder_results, metafield_results, price_bandit>>

(***************************************************************************)
(* create_product, step 2: media.                                          *)
(***************************************************************************)
\* _extract_custom_sku_from_payload
PayloadCustomSku(pd) ==
    LET mfs == pd.attributes.metafields
        hits == {i \in DOMAIN mfs : mfs[i].namespace = "custom" /\ mfs[i].key = "sku"}
    IN  IF hits = {} THEN ""
        ELSE LET v == mfs[CHOOSE i \in hits : \A j \in hits : i <= j].value
             IN  IF v.kind = "scalar" THEN v.s ELSE ""

\* The media steps without the prune of an update run.
FirstMediaStepUnpruned ==
    IF has_new_media \/ total_media > 0 THEN "upload" ELSE "attributes"

\* The step that follows the SKU lookup.
FirstMediaStep ==
    CASE is_updating -> "prune"
      [] ~is_updating /\ (has_new_media \/ total_media > 0) -> "upload"
      [] OTHER -> "attributes"

SkuLookup ==
    /\ pc = "sku"
    /\ \E o \in Afford(ReadOutcomes, Left) :
         LET fetching == PayloadCustomSku(product_data) = "" /\ product_data.sku = ""
         IN  /\ ~fetching => o = "ok"
             /\ Within(Cost(o))
             /\ faults' = faults + Cost(o)
             /\ calls' = calls \o (IF fetching
                                   THEN Read("media", "sku_fetch",
                                             OrDefault(actual_shopify_domain), 0)
                                   ELSE <<>>)
    /\ pc' = FirstMediaStep
    /\ UNCHANGED <<unit, response, verification, product_data, ret, actual_shopify_domain, product, images,
                   remote_metafields, config_STORE_DOMAIN, pb_STORE_DOMAIN,
                   manage_results, media_results, reorder_results, metafield_results,
                   price_bandit>>

\* Every per-item answer of a loop, drawn together.
CostOf(o) == SumSeq([k \in DOMAIN o |-> Cost(o[k])])

MediaPrune ==
    /\ pc = "prune"
    /\ \E oGet \in Afford(ReadOutcomes, Left) :
       \E oDel \in Answers(IF oGet = "ok"
                           THEN Len(MediaToRemove(product_data.shopify_media_ids, images))
                           ELSE 0, GenericOutcomes, Left - Cost(oGet)) :
       \E r \in {manage_product_media(product_data.shopify_media_ids, images, oGet, oDel)} :
             /\ Within(Cost(oGet) + CostOf(oDel))
             /\ faults' = faults + Cost(oGet) + CostOf(oDel)
             /\ calls' = calls \o r.calls
             /\ images' = r.images
             /\ manage_results' = r.result
             /\ IF MissingErrors(r.result)
                THEN Raise("Error creating product")
                ELSE /\ pc' = IF has_new_media THEN "upload" ELSE "reorder"
                     /\ ret' = ret
    /\ UNCHANGED <<unit, response, verification, product_data, actual_shopify_domain, product, remote_metafields,
                   config_STORE_DOMAIN, pb_STORE_DOMAIN, media_results, reorder_results,
                   metafield_results, price_bandit>>

MediaUpload ==
    /\ pc = "upload"
    \* an update run passes None: kept media are not attached again
    /\ \E ids \in {IF is_updating THEN <<>> ELSE product_data.shopify_media_ids} :
       \E oAttach \in (IF ids = <<>> THEN {"ok"} ELSE Afford(WriteOutcomes, Left)) :
       \E oUp \in Answers(Len(product_data.media_files), WriteOutcomes,
                          Left - Cost(oAttach)) :
       \E oFetch \in Afford(ReadOutcomes, Left - Cost(oAttach) - CostOf(oUp)) :
       \E r \in {upload_media_to_product(product_data.media_files, ids,
                                         actual_shopify_domain, images, oAttach, oUp,
                                         oFetch)} :
         /\ Within(Cost(oAttach) + CostOf(oUp) + Cost(oFetch))
         /\ faults' = faults + Cost(oAttach) + CostOf(oUp) + Cost(oFetch)
         /\ calls' = calls \o r.calls
         /\ images' = r.images
         /\ media_results' = r.result
         /\ IF MissingErrors(r.result)
            THEN Raise("Error creating product")
            ELSE pc' = "reorder" /\ ret' = ret
    /\ UNCHANGED <<unit, response, verification, product_data, actual_shopify_domain, product,
                   remote_metafields, config_STORE_DOMAIN, pb_STORE_DOMAIN,
                   manage_results, reorder_results, metafield_results, price_bandit>>

\* if media_order: ... elif shopify_media_ids: ...
ByOrder == product_data.media_order # <<>>
Fallback == ~ByOrder /\ product_data.shopify_media_ids # <<>>

MediaReorder ==
    /\ pc = "reorder"
    /\ \E oGet \in (IF ByOrder \/ Fallback THEN Afford(ReadOutcomes, Left) ELSE {"ok"}) :
       \E oPut \in Answers(IF ByOrder /\ oGet = "ok"
                           THEN Cardinality(DOMAIN PositionMap(product_data.media_order,
                                               product_data.shopify_media_ids, images))
                           ELSE 0, WriteOutcomes, Left - Cost(oGet)) :
       \E oOld \in Answers(IF Fallback /\ oGet = "ok"
                           THEN Len(product_data.shopify_media_ids) ELSE 0,
                           GenericOutcomes, Left - Cost(oGet)) :
       \* the cover write follows the position writes when none of them raised
       \E covering \in {ByOrder /\ oGet = "ok" /\ DOMAIN oPut # {}
                         /\ FirstRaise(oPut, Len(oPut)) = 0} :
       \E oCover \in (IF covering
                      THEN Afford(WriteOutcomes, Left - Cost(oGet) - CostOf(oPut))
                      ELSE {"ok"}) :
       \E r \in {IF ByOrder
                  THEN reorder_product_media_by_order(product_data.media_order,
                           product_data.shopify_media_ids, actual_shopify_domain,
                           images, oGet, oPut, oCover)
                  ELSE reorder_product_media(product_data.shopify_media_ids,
                                             images, oGet, oOld)} :
         /\ Within(Cost(oGet) + CostOf(oPut) + CostOf(oOld) + Cost(oCover))
         /\ faults' = faults + Cost(oGet) + CostOf(oPut) + CostOf(oOld) + Cost(oCover)
         /\ calls' = calls \o (IF ByOrder \/ Fallback THEN r.calls ELSE <<>>)
         /\ reorder_results' = IF ByOrder \/ Fallback THEN r.result ELSE NotRun
         /\ IF (ByOrder \/ Fallback) /\ MissingErrors(r.result)
            THEN Raise("Error creating product")
            ELSE pc' = "attributes" /\ ret' = ret
    /\ UNCHANGED <<unit, response, verification, product_data, actual_shopify_domain, product,
                   images, remote_metafields, config_STORE_DOMAIN, pb_STORE_DOMAIN,
                   manage_results, media_results, metafield_results, price_bandit>>

(***************************************************************************)
(* create_product, steps 3 to 5 and the verification read.                 *)
(***************************************************************************)
\* The attribute list of each request of the model.
AttributeList == [a \in AttributeInputs |-> BuildMetafields(a)]

\* The choice list the platform may name in a 422 conflict.
RemoteChoiceInputs == {{}, Allowed["subcategory"]}

Retryable(mf) ==
    IsListType(mf.type) /\ mf.namespace = "custom" /\ IsSubcategoryKey(mf.key)

Attributes ==
    /\ pc = "attributes"
    /\ \E metafields \in {AttributeList[product_data.attributes]} :
       \E oGet \in (IF metafields = <<>> THEN {"ok"} ELSE Afford(ReadOutcomes, Left)) :
       \E oW \in Answers(Len(metafields), MetafieldOutcomes, Left - Cost(oGet)) :
       \E conflicts \in {{k \in DOMAIN metafields : oW[k] = "conflict"}} :
         /\ \A k \in conflicts : Retryable(metafields[k])
         /\ \A k \in DOMAIN metafields : Skipped(metafields[k]) => oW[k] = "ok"
         /\ \E remote_choices \in (IF conflicts = {} THEN {{}}
                                   ELSE RemoteChoiceInputs) :
            \E oRetry \in (IF remote_choices = {} THEN {"ok"}
                           ELSE Afford(GenericOutcomes,
                                       Left - Cost(oGet) - CostOf(oW))) :
            \E r \in {create_metafields(metafields, actual_shopify_domain,
                                        remote_metafields, oGet, oW, oRetry,
                                        remote_choices)} :
              /\ Within(Cost(oGet) + CostOf(oW) + Cost(oRetry))
              /\ faults' = faults + Cost(oGet) + CostOf(oW) + Cost(oRetry)
              /\ calls' = calls \o (IF metafields # <<>> THEN r.calls ELSE <<>>)
              /\ remote_metafields' = IF metafields # <<>> THEN r.remote
                                      ELSE remote_metafields
              /\ metafield_results' = IF metafields # <<>> THEN r.result ELSE NotRun
              /\ IF metafields # <<>> /\ MissingErrors(r.result)
                 THEN Raise("Error creating product")
                 ELSE pc' = "variants" /\ ret' = ret
    /\ UNCHANGED <<unit, response, verification, product_data, actual_shopify_domain, product,
                   images, config_STORE_DOMAIN, pb_STORE_DOMAIN, manage_results,
                   media_results, reorder_results, price_bandit>>

\* What the collaborator call ends with: process_product returns True or
\* False or raises, or the import of Price_Bandit fails.
CollaboratorOutcomes == {"true", "false", "raise", "import_error"}

\* The media reorder placed after the collaborator call.
AfterCollaboratorReorder == "reorder"
\* Step 5 follows the collaborator call.
AfterCollaborator == "tax"

\* original_store_domain: config.STORE_DOMAIN as saved before the override, None
\* (NoDomain) when no host was discovered or the import failed.
Saved(overridden) == IF overridden THEN config_STORE_DOMAIN ELSE NoDomain

\* The finally block without its restore.
RestoredNever(original_store_domain, current) == current
\* The finally block: both copies are set back to original_store_domain when
\* one was saved.
Restored(original_store_domain, current) ==
    IF original_store_domain # NoDomain THEN original_store_domain ELSE current

\* What a collaborator outcome spends of the fault budget: a raising
\* collaborator is drawn in every run, its other failures within the budget.
CollaboratorCost(outcome) == IF outcome \in {"true", "raise"} THEN 0 ELSE 1

Variants ==
    /\ pc = "variants"
    /\ \E outcome \in CollaboratorOutcomes :
       \E imported \in {outcome # "import_error"} :
       \E overridden \in {imported /\ actual_shopify_domain # NoDomain} :
       \E original_store_domain \in {Saved(overridden)} :
       \* the two copies while the collaborator runs
       \E config_during \in {IF overridden THEN actual_shopify_domain
                              ELSE config_STORE_DOMAIN} :
       \E pb_during \in {IF overridden THEN actual_shopify_domain
                          ELSE pb_STORE_DOMAIN} :
         /\ Within(CollaboratorCost(outcome))
         /\ faults' = faults + CollaboratorCost(outcome)
         /\ calls' = calls \o (IF imported
                               THEN <<Call("variants", "process_product", "CALL",
                                           pb_during, "generic", 1, 0)>>
                               ELSE <<>>)
         /\ config_STORE_DOMAIN' = Restored(original_store_domain, config_during)
         /\ pb_STORE_DOMAIN' = Restored(original_store_domain, pb_during)
         /\ price_bandit' = outcome
    /\ pc' = AfterCollaborator
    /\ UNCHANGED <<unit, response, verification, product_data, ret, actual_shopify_domain, product, images,
                   remote_metafields, manage_results, media_results, reorder_results,
                   metafield_results>>

\* The variants on the product when Step 5 reads them: the collaborator
\* leaves them taxable.
RemoteVariants == <<Variant(1, TRUE), Variant(2, TRUE)>>

TaxFixup ==
    /\ pc = "tax"
    /\ \E taxable \in {Taxable(product_data.charge_vat)} :
       \E oGet \in (IF taxable THEN {"ok"} ELSE Afford(ReadOutcomes, Left)) :
       \E oPut \in (IF taxable \/ oGet # "ok" THEN {"ok"}
                    ELSE Afford(GenericOutcomes, Left - Cost(oGet))) :
       \E r \in {update_product_taxable(FALSE, RemoteVariants, oGet, oPut)} :
         /\ Within(Cost(oGet) + Cost(oPut))
         /\ faults' = faults + Cost(oGet) + Cost(oPut)
         /\ calls' = calls \o (IF taxable THEN <<>> ELSE r.calls)
    /\ pc' = "verify"
    /\ UNCHANGED <<unit, response, verification, product_data, ret, actual_shopify_domain,
                   product, images, remote_metafields, config_STORE_DOMAIN,
                   pb_STORE_DOMAIN, manage_results, media_results, reorder_results,
                   metafield_results, price_bandit>>

\* What the verification read yields: the product, another product, a
\* non-200 status, requests.Timeout, requests.ConnectionError, a body that
\* is no JSON, or another exception of the transport.
VerifyOutcomes == {"ok", "different", "err", "timeout", "connection", "badjson",
                   "transport"}
\* except (requests.Timeout, requests.ConnectionError)
VerifyCaught(o) == o \in {"timeout", "connection"}
VerifyRaises(o) == o \in {"timeout", "connection", "badjson", "transport"}

Success ==
    [success |-> TRUE, product |-> product,
     message |-> IF is_updating THEN "updated successfully" ELSE "created successfully"]

Verify ==
    /\ pc = "verify"
    /\ \E o \in Afford(VerifyOutcomes, Left) :
         /\ Within(Cost(o))
         /\ faults' = faults + Cost(o)
         /\ verification' = o
         /\ calls' = calls \o Read("verify", "verify", OrDefault(actual_shopify_domain), 0)
         /\ IF VerifyRaises(o) /\ ~VerifyCaught(o)
            THEN Raise("Error creating product")
            ELSE ret' = Success /\ pc' = "done"
    /\ UNCHANGED <<unit, response, product_data, actual_shopify_domain, product, images,
                   remote_metafields, config_STORE_DOMAIN, pb_STORE_DOMAIN,
                   manage_results, media_results, reorder_results, metafield_results,
                   price_bandit>>

Next ==
    \/ Validate
    \/ CoreWrite
    \/ SkuLookup
    \/ MediaPrune
    \/ MediaUpload
    \/ MediaReorder
    \/ Attributes
    \/ Variants
    \/ TaxFixup
    \/ Verify

Spec == Init /\ [][Next]_vars

\* requests.put / requests.post of the core write is given no timeout=, so
\* the call waits for the answer of the platform without limit: a platform
\* that accepts the request and never answers leaves the run inside the call.
NoAnswer ==
    /\ pc = "write"
    /\ Within(1)
    /\ faults' = faults + 1
    /\ pc' = "blocked"
    /\ UNCHANGED <<product_data, calls, ret, actual_shopify_domain, product, images,
                   remote_metafields, config_STORE_DOMAIN, pb_STORE_DOMAIN,
                   manage_results, media_results, reorder_results, metafield_results,
                   price_bandit, response, verification, unit>>

\* create_product against a platform that may also leave a request unanswered;
\* a step that can be taken is taken (the code runs on without waiting for
\* anything but its own calls).
BlockingNext ==
    \/ Validate
    \/ CoreWrite
    \/ SkuLookup
    \/ MediaPrune
    \/ MediaUpload
    \/ MediaReorder
    \/ Attributes
    \/ Variants
    \/ TaxFixup
    \/ Verify
    \/ NoAnswer

BlockingSpec == Init /\ [][BlockingNext]_vars /\ WF_vars(BlockingNext)

(***************************************************************************)
(* The helpers called on their own, each on arguments and remote answers   *)
(* drawn from bounded sets.                                                *)
(***************************************************************************)
\* The remote media lists: A@1, B@2, C@3; one kept image and one or two
\* uploads, the uploads listed out of their creation order; three images
\* listed out of their position order.
UnitImages ==
    {<<>>,
     <<Img(1, 1, 1)>>,
     <<Img(1, 1, 1), Img(2, 2, 2), Img(3, 3, 3)>>,
     <<Img(1, 1, 1), Img(11, 2, 5)>>,
     <<Img(1, 1, 1), Img(12, 2, 5), Img(11, 3, 5)>>,
     <<Img(12, 1, 6), Img(11, 2, 4), Img(1, 3, 1)>>,
     <<Img(1, 3, 1), Img(2, 1, 2), Img(3, 2, 3)>>}

\* The keep lists: REST ids, global ids, an id that names no remote media.
UnitKeeps ==
    {<<>>, <<RestId(1)>>, <<Gid(1)>>, <<RestId(1), RestId(3)>>, <<RestId(1), Gid(3)>>,
     <<Gid(2)>>, <<RestId(1), RestId(2), RestId(3)>>, <<RestId(9)>>}

\* The order instructions.
UnitOrders ==
    {<<>>,
     <<UploadItem(1), ShopifyItem(RestId(1), 2)>>,
     <<ShopifyItem(Gid(1), 3), UploadItem(1), UploadItem(2)>>,
     <<UploadItem(2), ShopifyItem(RestId(1), 1), UploadItem(3)>>,
     <<ShopifyItem(RestId(9), 1), UploadItem(2)>>,
     <<ShopifyItem(RestId(1), NoPosition), UploadItem(NoPosition)>>,
     <<ShopifyItem(RestId(1), NoPosition), UploadItem(1)>>}

UnitInit ==
    /\ pc = "unit"
    /\ product_data = CHOOSE pd \in ProductData : TRUE
    /\ calls = <<>>
    /\ faults = 0
    /\ ret = Running
    /\ actual_shopify_domain = NoDomain
    /\ product = Product(NoId, <<>>, 0)
    /\ images = <<>>
    /\ remote_metafields = {}
    /\ config_STORE_DOMAIN = STORE_DOMAIN
    /\ pb_STORE_DOMAIN = STORE_DOMAIN
    /\ manage_results = NotRun
    /\ media_results = NotRun
    /\ reorder_results = NotRun
    /\ metafield_results = NotRun
    /\ price_bandit = "notrun"
    /\ response = NoResponse
    /\ verification = "notrun"
    /\ unit = Idle

\* What a helper called on its own leaves alone.
UnitFrame ==
    UNCHANGED <<pc, product_data, calls, faults, ret, actual_shopify_domain, product,
                images, remote_metafields, config_STORE_DOMAIN, pb_STORE_DOMAIN,
                manage_results, media_results, reorder_results, metafield_results,
                price_bandit, response, verification>>

\* manage_product_media(product_id, shopify_media_ids_to_keep)
UnitPrune ==
    /\ unit = Idle
    /\ \E imgs \in UnitImages :
       \E keep \in UnitKeeps :
       \E oGet \in ReadOutcomes :
       \E oDel \in Answers(IF oGet = "ok" THEN Len(MediaToRemove(keep, imgs)) ELSE 0,
                           GenericOutcomes, MaxFaults) :
       \E r \in {manage_product_media(keep, imgs, oGet, oDel)} :
         unit' = [fn |-> "manage_product_media", imgs |-> imgs, keep |-> keep,
                  oGet |-> oGet, oDel |-> oDel, calls |-> r.calls,
                  images |-> r.images, result |-> r.result]
    /\ UnitFrame

\* The product names: plain, with blanks and a character that is dropped,
\* made of dropped characters only, and empty; the SKUs likewise.
UnitNames == {<<"B", "a", "r">>, <<" ", "B", " ", " ", "a", "!", " ">>, <<"!", "!">>, <<>>}
UnitSkus == {<<>>, <<"S", "1">>, <<"/">>}
\* A new file: its original name and its declared content type.
File(filename, content_type) == [filename |-> filename, content_type |-> content_type]
Png == File(<<"a", ".", "p", "n", "g">>, <<"i", "m", "a", "g", "e", "/", "p", "n", "g">>)
Mp4 == File(<<"b", ".", "c", ".", "m", "p", "4">>, <<"v", "i", "d", "e", "o", "/", "m", "p", "4">>)
Bare == File(<<"n", "o", "e", "x", "t">>, <<"i", "m", "a", "g", "e", "/", "p", "n", "g">>)
Dotted == File(<<"d", ".">>, <<"v", "i", "d", "e", "o", "s">>)
UnitFiles == {<<>>, <<Png>>, <<Png, Mp4>>, <<Mp4, Png>>, <<Bare, Dotted>>, <<Mp4, Mp4>>}

\* upload_media_to_product(product_id, media_files, None, product_name, product_sku)
UnitUpload ==
    /\ unit = Idle
    /\ \E product_name \in UnitNames :
       \E product_sku \in UnitSkus :
       \E media_files \in UnitFiles :
       \E oUp \in Answers(Len(media_files), WriteOutcomes, MaxFaults) :
       \E oFetch \in (IF media_files = <<>> THEN {"ok"} ELSE ReadOutcomes) :
       \E r \in {upload_media_to_product(
                     [k \in DOMAIN media_files |->
                        IF is_video(media_files[k].content_type) THEN "video"
                        ELSE "image"],
                     <<>>, NoDomain, <<>>, "ok", oUp, oFetch)} :
         unit' = [fn |-> "upload_media_to_product", product_name |-> product_name,
                  product_sku |-> product_sku, media_files |-> media_files,
                  oUp |-> oUp, oFetch |-> oFetch,
                  filenames |-> [k \in DOMAIN media_files |->
                                   Filename(product_name, product_sku,
                                            media_files[k].filename, k - 1)],
                  calls |-> r.calls, images |-> r.images, result |-> r.result]
    /\ UnitFrame

\* reorder_product_media_by_order(product_id, media_order, shopify_media_ids)
UnitReorder ==
    /\ unit = Idle
    /\ \E imgs \in UnitImages :
       \E keep \in {<<>>, <<RestId(1)>>, <<Gid(1)>>, <<RestId(1), RestId(2), RestId(3)>>} :
       \E media_order \in UnitOrders :
       \E oGet \in (IF media_order = <<>> THEN {"ok"} ELSE ReadOutcomes) :
       \E oPut \in Answers(IF media_order # <<>> /\ oGet = "ok"
                           THEN Cardinality(DOMAIN PositionMap(media_order, keep, imgs))
                           ELSE 0, WriteOutcomes, MaxFaults) :
       \E oCover \in (IF DOMAIN oPut # {} /\ FirstRaise(oPut, Len(oPut)) = 0
                      THEN Afford(WriteOutcomes, MaxFaults) ELSE {"ok"}) :
       \E r \in {reorder_product_media_by_order(media_order, keep, NoDomain, imgs,
                                                 oGet, oPut, oCover)} :
         unit' = [fn |-> "reorder_product_media_by_order", imgs |-> imgs, keep |-> keep,
                  media_order |-> media_order, oGet |-> oGet, oPut |-> oPut,
                  oCover |-> oCover, calls |-> r.calls,
                  position_map |-> r.position_map, cover |-> r.cover,
                  result |-> r.result]
    /\ UnitFrame

\* The attribute lists: one valid and one invalid label, a label of the
\* other bucket only, a bucket without a local choice list, a text-typed
\* subcategory, a label with surrounding blanks, a blank list value; and a
\* list-typed attribute without choices whose value is blank or absent, an
\* empty array, a bare scalar, an array string, None or a Python list, and a
\* text-typed attribute whose value is blank or None.
UnitMetafieldLists ==
    {<<Metafield("custom", "product_colours", Blank, ListType)>>,
     <<Metafield("custom", "product_colours", JsonArray(<<>>), ListType)>>,
     <<Metafield("custom", "product_colours", Scalar("Red"), ListType)>>,
     <<Metafield("custom", "product_colours", JsonArray(<<"Red">>), ListType)>>,
     <<Metafield("custom", "product_colours", NoneVal, ListType)>>,
     <<Metafield("custom", "product_colours", PyList(<<"Red">>), ListType)>>,
     <<Metafield("custom", "material", Blank, TextType)>>,
     <<Metafield("custom", "material", NoneVal, TextType)>>} \cup
    {<<Metafield("custom", "subcategory", JsonArray(<<"Bars", "Sweets">>), ListType)>>,
     <<Metafield("custom", "subcategory_2", JsonArray(<<"Bars">>), ListType)>>,
     <<Metafield("custom", "subcategory_3", JsonArray(<<"Bars">>), ListType)>>,
     <<Metafield("custom", "subcategory", Scalar("Sweets"), TextType)>>,
     <<Metafield("custom", "material", Scalar("card"), TextType),
       Metafield("custom", "subcategory", PyList(<<" Bars ", "Mint">>), ListType)>>,
     <<Metafield("custom", "subcategory", Blank, ListType),
       Metafield("custom", "custom_category", JsonArray(<<"Chocolate">>), ListType)>>}

\* The choice lists a conflict may name: none, the local list, the platform's
\* own spelling of two labels, a list without any of the labels sent.
UnitRemoteChoices == {{}, Allowed["subcategory"], {"bars", "Mint"}, {"Sweets"}}

\* One invocation of create_metafields on the attributes the platform holds.
Invocation(metafields, remote, oGet, oW, oRetry, remote_choices, round, first) ==
    [fn |-> "create_metafields", round |-> round, metafields |-> metafields,
     before |-> remote, oGet |-> oGet, oW |-> oW, oRetry |-> oRetry,
     remote_choices |-> remote_choices, first |-> first,
     out |-> create_metafields(metafields, NoDomain, remote, oGet, oW, oRetry,
                               remote_choices)]

\* The answers to one invocation that the platform can give.
Invoked(metafields, remote, round, first) ==
    \E oGet \in ReadOutcomes :
    \E oW \in Answers(Len(metafields), MetafieldOutcomes, MaxFaults) :
    \E conflicts \in {{k \in DOMAIN metafields : oW[k] = "conflict"}} :
      /\ \A k \in conflicts : Retryable(metafields[k]) /\ ~Skipped(metafields[k])
      /\ \A k \in DOMAIN metafields : Skipped(metafields[k]) => oW[k] = "ok"
      /\ \E remote_choices \in (IF conflicts = {} THEN {{}} ELSE UnitRemoteChoices) :
         \E oRetry \in (IF conflicts = {} THEN {"ok"} ELSE GenericOutcomes) :
           unit' = Invocation(metafields, remote, oGet, oW, oRetry, remote_choices,
                              round, first)

\* create_metafields(product_id, metafields_data)
UnitMetafields ==
    /\ unit = Idle
    /\ \E metafields \in UnitMetafieldLists :
       \E remote \in {{}, {<<"custom", "subcategory">>}} :
         Invoked(metafields, remote, 1, <<>>)
    /\ UnitFrame

\* The same attributes written again by a second invocation.
UnitMetafieldsAgain ==
    /\ unit.fn = "create_metafields" /\ unit.round = 1
    /\ Invoked(unit.metafields, unit.out.remote, 2, <<unit>>)
    /\ UnitFrame

\* The labels asked about: every label of the vocabulary, labels with blanks
\* at their ends, with doubled blanks inside or in another case, blank labels
\* and labels the vocabulary does not have.
UnitLabels ==
    Range(SUBCATEGORIES) \cup
    {" Bars ", " Sweets", "   ", "", "bars", "BARS", "SWEETS", "Cake  -  Box",
     "Card  Box - Square", "card  box - square", "Gift  Boxes", "Unknown", "None"}

\* get_subcategory_metafield_key(subcategory)
UnitKey ==
    /\ unit = Idle
    /\ \E subcategory \in UnitLabels :
         unit' = [fn |-> "get_subcategory_metafield_key",
                  subcategory |-> subcategory,
                  out |-> get_subcategory_metafield_key(subcategory)]
    /\ UnitFrame

\* The coefficients and the scales of the decimal prices asked about.
MaxCoef == 1100
MaxScale == 4

\* The prices asked about: every decimal coef * 10^-scale of the bounds
\* (among them 2, 1.005, -0.005, 10.99, 1e2), 1e26, "abc", "", "None" (the
\* text of None), "NaN" and "Infinity".
UnitPrices ==
    {Dec(coef, scale) : coef \in (0 - MaxCoef)..MaxCoef, scale \in (0 - 2)..MaxScale}
    \cup {Dec(1, 0 - 26),
          Text(<<"a", "b", "c">>), Text(<<>>), Text(<<"N", "o", "n", "e">>),
          NaNText, InfinityText}

\* format_price(price)
UnitPrice ==
    /\ unit = Idle
    /\ \E price \in UnitPrices :
         unit' = [fn |-> "format_price", price |-> price, out |-> format_price(price)]
    /\ UnitFrame

\* get_metafield_choices(metafield_key), asked about two keys in turn
UnitChoices ==
    /\ unit = Idle
    /\ \E first \in MetafieldKeys :
       \E second \in MetafieldKeys :
         unit' = [fn |-> "get_metafield_choices", keys |-> <<first, second>>,
                  out |-> <<get_metafield_choices(first),
                            get_metafield_choices(second)>>]
    /\ UnitFrame

\* The attribute-shaped requests of the attribute step: none; categories
\* in the structured field and in the list; subcategories in the structured
\* field and in the list, one of them in both; a subcategory named twice in
\* the structured field; categories and subcategories in the list only;
\* subcategories that match the vocabulary in another case or with doubled
\* blanks only; colours in the list and in the structured field.
UnitAttributeInputs ==
    {[metafields |-> <<>>, categories |-> <<>>, subcategories |-> <<>>,
      product_colours |-> ""],
     [metafields |-> <<Metafield("custom", "product_colours", Scalar("Red"), TextType)>>,
      categories |-> <<>>, subcategories |-> <<>>, product_colours |-> "Blue"],
     [metafields |-> <<>>, categories |-> <<>>,
      subcategories |-> <<"bars", "Gift  Boxes", "Mint">>, product_colours |-> ""],
     [metafields |-> <<Metafield("custom", "custom_category",
                                 JsonArray(<<"Sweets">>), ListType)>>,
      categories |-> <<"Chocolate">>, subcategories |-> <<>>, product_colours |-> ""],
     [metafields |-> <<Metafield("custom", "subcategory",
                                 JsonArray(<<"Mint", "Bars">>), ListType)>>,
      categories |-> <<>>, subcategories |-> <<"Bars", "Sweets">>,
      product_colours |-> ""],
     [metafields |-> <<>>, categories |-> <<"Chocolate">>,
      subcategories |-> <<"Bars", "Bars">>, product_colours |-> ""],
     [metafields |-> <<Metafield("custom", "custom_category",
                                 JsonArray(<<"Sweets", "Sweets", "Eco">>), ListType),
                       Metafield("custom", "subcategory_2",
                                 JsonArray(<<"Treats">>), ListType),
                       Metafield("custom", "subcategory",
                                 JsonArray(<<"Bars", "Treats">>), ListType)>>,
      categories |-> <<>>, subcategories |-> <<>>, product_colours |-> ""]}

\* Step 3 of create_product on a request, every write accepted.
UnitAttributes ==
    /\ unit = Idle
    /\ \E request \in UnitAttributeInputs :
       \E metafields \in {BuildMetafields(request)} :
         unit' = [fn |-> "attributes", request |-> request, metafields |-> metafields,
                  out |-> create_metafields(metafields, NoDomain, {}, "ok",
                                            [k \in DOMAIN metafields |-> "ok"], "ok", {})]
    /\ UnitFrame

\* Two invocations of create_metafields on one product, their requests
\* interleaved.  The platform answers every request, and refuses only the
\* create of an identity it holds.  Each invocation is at its initial fetch,
\* at the k-th attribute of its loop, or done.
RaceLists ==
    {<<Metafield("custom", "material", Scalar("card"), TextType)>>,
     <<Metafield("custom", "subcategory", JsonArray(<<"Bars">>), ListType),
       Metafield("custom", "material", Scalar("card"), TextType)>>,
     <<Metafield("custom", "material", Scalar("card"), TextType),
       Metafield("custom", "sku", Scalar("SKU1"), TextType),
       Metafield("custom", "product_colours", Scalar("Red"), TextType)>>}
Racers == {1, 2}

RaceStart ==
    /\ unit = Idle
    /\ \E metafields \in RaceLists :
       \E remote \in {{}, {<<"custom", "material">>}} :
         unit' = [fn |-> "race", metafields |-> metafields, before |-> remote,
                  remote |-> remote, calls |-> <<>>,
                  at |-> [p \in Racers |-> "fetch"],
                  k |-> [p \in Racers |-> 1],
                  existing_by_ns_key |-> [p \in Racers |-> {}],
                  errors |-> [p \in Racers |-> <<>>]]
    /\ UnitFrame

\* resp = requests.get(.../metafields.json?limit=250) of invocation p
RaceFetch(p) ==
    /\ unit # Idle
    /\ unit.fn = "race"
    /\ unit.at[p] = "fetch"
    /\ unit' = [unit EXCEPT
                  !.calls = @ \o Read("attributes", "metafields_fetch", STORE_DOMAIN, p),
                  !.existing_by_ns_key[p] = unit.remote,
                  !.at[p] = "write"]
    /\ UnitFrame

\* One iteration of the loop over metafields_data of invocation p.
RaceWrite(p) ==
    /\ unit # Idle
    /\ unit.fn = "race"
    /\ unit.at[p] = "write"
    /\ \E w \in {WriteMetafield(unit.metafields[unit.k[p]], unit.k[p],
                                 unit.existing_by_ns_key[p], unit.remote,
                                 STORE_DOMAIN, "ok", "ok", {})} :
         unit' = [unit EXCEPT
                    !.calls = @ \o w.calls,
                    !.remote = w.remote,
                    !.errors[p] = @ \o w.errors,
                    !.k[p] = @ + 1,
                    !.at[p] = IF unit.k[p] = Len(unit.metafields) THEN "done"
                              ELSE "write"]
    /\ UnitFrame

\* The requests whose core payload is built: create and update, with and
\* without SKU, with a weight below, at and above 0, with no quantity, a
\* quantity of 0 and a quantity of 7, with and without a description.
UnitPayloadInputs ==
    [updating : BOOLEAN, price : {Dec(2, 0), Dec(1005, 3)}, sku : {"", "SKU1"},
     weight : {0 - 1, 0, 5}, inventory_quantity : {NoneVal, Num(0), Num(7)},
     description : {"", "<h3>Bar</h3>"}, tags : {"", "snack"}]

\* The payload of the core write as create_product builds it.
UnitPayload ==
    /\ unit = Idle
    /\ \E request \in UnitPayloadInputs :
         unit' = [fn |-> "payload", request |-> request,
                  out |-> ProductPayload(request.updating, <<"B", "a", "r">>,
                              request.description, "active", request.tags,
                              VariantPayload(format_price(request.price).value,
                                             request.sku, request.weight,
                                             request.inventory_quantity))]
    /\ UnitFrame

UnitNext ==
    \/ UnitPrune
    \/ RaceStart
    \/ \E p \in Racers : RaceFetch(p)
    \/ \E p \in Racers : RaceWrite(p)
    \/ UnitUpload
    \/ UnitPayload
    \/ UnitAttributes
    \/ UnitChoices
    \/ UnitPrice
    \/ UnitKey
    \/ UnitReorder
    \/ UnitMetafields
    \/ UnitMetafieldsAgain

UnitSpec == UnitInit /\ [][UnitNext]_vars

(***************************************************************************)
(* Properties.                                                             *)
(***************************************************************************)
Steps == {"core", "media", "attributes", "variants", "tax", "verify"}
StepRank(step) == CASE step = "core" -> 1
                    [] step = "media" -> 2
                    [] step = "attributes" -> 3
                    [] step = "variants" -> 4
                    [] step = "tax" -> 5
                    [] step = "verify" -> 6

Issued(step) == \E i \in DOMAIN calls : calls[i].step = step
Asked(op) == \E i \in DOMAIN calls : calls[i].op = op
OnlyCoreCalls == \A i \in DOMAIN calls : calls[i].step = "core"
CoreSucceeded == product.id # NoId
Finished == pc = "done"

\* C1: once the core write has succeeded, the requests of a run are issued
\* in step order -- core write, media operations, attribute writes, the
\* collaborator call, the tax fixup, the verification read -- and no request
\* of an earlier step follows a request of a later step.
C1_StepOrder ==
    CoreSucceeded =>
        \A i \in 1..(Len(calls) - 1) :
            StepRank(calls[i].step) <= StepRank(calls[i + 1].step)

\* A finished run that issued requests of all six steps.
C1_AllStepsRun ==
    Finished /\ CoreSucceeded /\ ret.success /\ \A s \in Steps : Issued(s)

\* What failed after the core write: a media sub-step, the attribute step or
\* the collaborator.
Failed(r) == "success" \in DOMAIN r /\ ~r.success
SubStepFailed ==
    \/ Failed(manage_results)
    \/ Failed(media_results)
    \/ Failed(reorder_results)
    \/ Failed(metafield_results)
    \/ price_bandit \in {"false", "raise", "import_error"}

\* C2: a run whose core write succeeded and in which a media sub-step
\* (a failed product fetch inside prune or reorder included), the attribute
\* step or the collaborator failed still runs every later step up to the
\* verification read, and returns a success result when that read confirms
\* the product.
C2_FailedStepDoesNotStop ==
    (Finished /\ CoreSucceeded /\ SubStepFailed) =>
        /\ Issued("verify")
        /\ verification = "ok" => ret.success

\* The errors a failed step collected.
CollectedErrors(r) == IF Failed(r) /\ "errors" \in DOMAIN r THEN Range(r.errors) ELSE {}

\* C3: the result of a run that reaches its end carries the errors collected
\* by each media, attribute or collaborator sub-step that failed.
C3_ErrorsSurfaced ==
    (Finished /\ CoreSucceeded /\ ret.success /\ SubStepFailed) =>
        /\ "errors" \in DOMAIN ret
        /\ \A r \in {manage_results, media_results, reorder_results, metafield_results} :
               CollectedErrors(r) \subseteq Range(ret.errors)

\* C4: every result of manage_product_media, upload_media_to_product,
\* reorder_product_media_by_order, reorder_product_media and create_metafields
\* has the one shape with a success flag and an errors list, on every path.
C4_ResultShape ==
    \A r \in {manage_results, media_results, reorder_results, metafield_results} :
        r # NotRun => {"success", "errors"} \subseteq DOMAIN r

\* A title that is missing, empty or made of whitespace only.
TitleMissing ==
    \/ product_data.title.kind = "absent"
    \/ /\ product_data.title.kind = "str"
       /\ \A i \in DOMAIN product_data.title.chars : product_data.title.chars[i] = " "

\* C5: with a missing, empty or whitespace-only title create_product returns
\* a failure result and issues no request: no step runs.
C5_TitleRequired ==
    TitleMissing =>
        /\ calls = <<>>
        /\ pc \in {"start", "done"}
        /\ Finished => ~ret.success

\* A whitespace-only title was refused.
C5_BlankRefused ==
    /\ Finished /\ ~ret.success
    /\ product_data.title.kind = "str" /\ product_data.title.chars # <<>>
    /\ TitleMissing

\* The core write ended with a status other than 200/201, an unparseable
\* body, or a body holding an errors field.
CoreRefused ==
    \/ response.status = "err"
    \/ /\ response.status = "ok"
       /\ (response.body.shape = "badjson" \/ response.body.errors)

\* C6: when the core write is refused, create_product returns a failure
\* result with a message and issues no media, attribute, collaborator, tax
\* or verification request.
C6_CoreFailureIsFatal ==
    CoreRefused =>
        /\ Finished /\ ~ret.success /\ ret.error # ""
        /\ OnlyCoreCalls

\* A 200 answer holding a product and an errors field ended the run.
C6_ErrorsBodyRefused ==
    /\ Finished
    /\ response.status = "ok"
    /\ response.body.shape = "product" /\ response.body.errors
    /\ response.body.product.id # NoId

\* A create call answered with a list of products.
ListAnswer ==
    /\ ~is_updating
    /\ response.status = "ok"
    /\ response.body.shape = "products" /\ ~response.body.errors
Titled(list) == {p \in Range(list) : p.title = expected_title}
RecentlyTitled(list) == {p \in Titled(list) : p.age <= OneMinute}

C39_AdoptsOwnProduct ==
    (ListAnswer /\ product.id # NoId) => product = Own

\* C8: whatever the verification read yields -- a non-200 status, another
\* product, a timeout, a connection error, an unparseable body, any other
\* exception of the transport -- the run returns the success result it
\* returns when the read confirms the product.
C8_VerificationAdvisory ==
    (Finished /\ verification # "notrun") => ret = Success

\* C9: no POST, PUT or DELETE is handed to the library's redirect-following
\* on its first attempt: each is sent with redirects off and re-issued by
\* the program to the redirect target.
C9_WritesFollowManually ==
    \A i \in DOMAIN calls :
        (calls[i].method \in {"POST", "PUT", "DELETE"} /\ calls[i].attempt = 1)
            => calls[i].follow = "manual"

\* C10: once the core write was redirected to a host, every later request of
\* the run (prune, bulk-attach, upload, post-upload image fetch, reorder,
\* attribute fetch and writes, tax fixup, verification) is addressed to it.
C10_DiscoveredHostUsed ==
    actual_shopify_domain # NoDomain =>
        \A i \in DOMAIN calls :
            calls[i].step \in {"media", "attributes", "tax", "verify"}
                => calls[i].host = actual_shopify_domain

\* C11: on every path through the collaborator call -- it returns true, it
\* returns false, it raises, its import fails -- config.STORE_DOMAIN and the
\* collaborator's copy of it hold, once the call is over and when
\* create_product has returned, the values they had before the invocation.
C11_DomainRestored ==
    /\ config_STORE_DOMAIN = STORE_DOMAIN
    /\ pb_STORE_DOMAIN = STORE_DOMAIN

\* The collaborator ran against the discovered host and raised, and the run
\* has returned.
C11_OverriddenAndRaised ==
    /\ Finished
    /\ actual_shopify_domain # NoDomain
    /\ price_bandit = "raise"
    /\ \E i \in DOMAIN calls : /\ calls[i].op = "process_product"
                               /\ calls[i].host = actual_shopify_domain
                               /\ calls[i].host # STORE_DOMAIN

\* The request of the end-to-end example: a create run with price "2",
\* category "Chocolate" and subcategory "Bars".
ChocBar ==
    /\ ~is_updating
    /\ product_data.price = Dec(2, 0)
    /\ product_data.attributes.categories = <<"Chocolate">>
    /\ product_data.attributes.subcategories = <<"Bars">>

\* The first attempts that create the attribute custom.<key>.
Creates(key) ==
    {i \in DOMAIN calls : /\ calls[i].op = "metafield_create"
                          /\ calls[i].attempt = 1
                          /\ calls[i].arg.payload.namespace = "custom"
                          /\ calls[i].arg.payload.key = key}

AttributeStepOver == pc \in {"variants", "tax", "verify"} \/ metafield_results # NotRun

\* C18: creating a product with price "2", category "Chocolate" and
\* subcategory "Bars" sends one placeholder variant priced "2.00", and the
\* attribute step sends one custom_category attribute with value
\* ["Chocolate"] and one subcategory attribute with value ["Bars"] under the
\* key subcategory, none under subcategory_2.
C18_ChocBarRequest ==
    ChocBar =>
        /\ \A i \in DOMAIN calls :
               calls[i].op = "product_write" =>
                   /\ Len(calls[i].arg.variants) = 1
                   /\ calls[i].arg.variants[1].price = "2.00"
        /\ \A i \in Creates("custom_category") :
               calls[i].arg.payload.value = JsonArray(<<"Chocolate">>)
        /\ \A i \in Creates("subcategory") :
               calls[i].arg.payload.value = JsonArray(<<"Bars">>)
        /\ Creates("subcategory_2") = {}
        /\ AttributeStepOver =>
               /\ Cardinality(Creates("custom_category")) = 1
               /\ Cardinality(Creates("subcategory")) = 1

\* The example request ran to its end with every attribute written.
C18_ChocBarCreated ==
    /\ ChocBar /\ Finished /\ ret.success
    /\ metafield_results # NotRun /\ metafield_results.success
    /\ Asked("product_write")
    /\ Creates("subcategory") # {}

(***************************************************************************)
(* Properties of the helpers called on their own.                          *)
(***************************************************************************)
\* The requests of the call that carry the given operation, first attempts.
UnitCalls(op) ==
    {i \in DOMAIN unit.calls : unit.calls[i].op = op /\ unit.calls[i].attempt = 1}
\* What those requests name, in the order issued.
UnitArgs(op) ==
    [k \in 1..Cardinality(UnitCalls(op)) |->
        unit.calls[CHOOSE i \in UnitCalls(op) :
                       Cardinality({j \in UnitCalls(op) : j < i}) = k - 1].arg]

\* The keep-set: each id of the keep list, a global id reduced to its
\* numeric suffix.
KeepSet(keep) == {keep[i].n : i \in DOMAIN keep}
Pruned == unit.fn = "manage_product_media" /\ unit.oGet = "ok"

\* C12: manage_product_media issues one delete request for each remote
\* media item whose id is not in the keep-set, and none for a kept item; a
\* deletion that fails is recorded in the error list, and the deletions after
\* it are still attempted.
C12_PruneExactlyUnkept ==
    Pruned =>
        LET unkept == {i \in DOMAIN unit.imgs : unit.imgs[i].id \notin KeepSet(unit.keep)}
            deleted == UnitArgs("delete")
        IN  /\ Len(deleted) = Cardinality(unkept)
            /\ Range(deleted) = {unit.imgs[i].id : i \in unkept}
            /\ \A k \in DOMAIN deleted : deleted[k] \notin KeepSet(unit.keep)
            /\ Len(unit.oDel) = Len(deleted)
            /\ \A k \in DOMAIN deleted :
                   unit.oDel[k] \in {"err", "exc"} =>
                       \E e \in Range(unit.result.errors) : e.item = deleted[k]
            /\ Len(unit.result.errors)
                   = Cardinality({k \in DOMAIN deleted : unit.oDel[k] \in {"err", "exc"}})

\* Of A, B, C with B kept by its global id, A and C are deleted: the deletion
\* of A raises, it is recorded, and the deletion of C is still sent.
C12_FirstDeletionFailed ==
    /\ Pruned
    /\ unit.imgs = <<Img(1, 1, 1), Img(2, 2, 2), Img(3, 3, 3)>>
    /\ unit.keep = <<Gid(2)>>
    /\ unit.oDel = <<"exc", "ok">>
    /\ UnitArgs("delete") = <<1, 3>>
    /\ Len(unit.result.errors) = 1
    /\ unit.result.removed_count = 1

Reordered == unit.fn = "reorder_product_media_by_order" /\ unit.oGet = "ok"
                /\ unit.media_order # <<>>

\* The instructions carry explicit positions, no two the same.
WellPositioned(media_order) ==
    /\ \A k \in DOMAIN media_order : media_order[k].position # NoPosition
    /\ \A k, l \in DOMAIN media_order :
           media_order[k].position = media_order[l].position => k = l

\* The newly-uploaded media: the remote media not in the keep-set; and the
\* place of one of them in ascending order of creation time, then id.
NewlyUploaded == {i \in DOMAIN unit.imgs : unit.imgs[i].id \notin KeepSet(unit.keep)}
CreationRank(i) ==
    1 + Cardinality({j \in NewlyUploaded :
          \/ unit.imgs[j].created_at < unit.imgs[i].created_at
          \/ /\ unit.imgs[j].created_at = unit.imgs[i].created_at
             /\ unit.imgs[j].id < unit.imgs[i].id})
\* How many upload instructions the list holds up to its k-th instruction.
UploadsUpTo(k) ==
    Cardinality({l \in 1..k : unit.media_order[l].type = "upload"})

ReorderCompleted ==
    /\ Reordered
    /\ \A k \in DOMAIN unit.oPut : Final(unit.oPut[k]) # "exc"

\* C14: when reorder_product_media_by_order runs to its end with a non-empty
\* position map, it issues the cover update once, after every position
\* write, naming the media at the minimum position of the map; the platform
\* accepting it, that media is the product's cover image.
C14_CoverIsMinimumPosition ==
    (ReorderCompleted /\ DOMAIN unit.position_map # {}) =>
        LET pm == unit.position_map
            first_position == CHOOSE q \in DOMAIN pm : \A r \in DOMAIN pm : q <= r
        IN  /\ Cardinality(UnitCalls("cover")) = 1
            /\ UnitArgs("cover") = <<pm[first_position]>>
            /\ Cardinality(UnitCalls("position")) = Cardinality(DOMAIN pm)
            /\ \A i \in UnitCalls("cover") :
                   \A j \in DOMAIN unit.calls :
                       unit.calls[j].op = "position" => j < i
            /\ Final(unit.oCover) = "ok" => unit.cover = pm[first_position]

\* Three positions were written, one of them refused, and the cover update
\* that followed was accepted.
C14_CoverAfterRefusedWrite ==
    /\ ReorderCompleted
    /\ Cardinality(DOMAIN unit.position_map) = 3
    /\ \E k \in DOMAIN unit.oPut : Final(unit.oPut[k]) = "err"
    /\ Cardinality(UnitCalls("cover")) = 1
    /\ unit.cover # NoCover

\* The remote media some earlier instruction than the k-th has claimed in
\* the position map, and the remote media none has.
Claimed(k) ==
    {unit.position_map[unit.media_order[l].position] :
        l \in {m \in 1..(k - 1) :
                 unit.media_order[m].position \in DOMAIN unit.position_map}}
Unclaimed(k) == {i \in DOMAIN unit.imgs : unit.imgs[i].id \notin Claimed(k)}

C31_EveryPairWritten ==
    Reordered =>
        /\ \A q \in DOMAIN unit.position_map :
               \E i \in UnitCalls("position") :
                   unit.calls[i].arg = unit.position_map[q]
        /\ unit.result.success <=>
               \A k \in DOMAIN unit.oPut : Final(unit.oPut[k]) = "ok"

\* C35: for any order-instruction list, with explicit positions, without, or
\* mixed, the position map of reorder_product_media_by_order is one-to-one:
\* no media id is assigned to two positions, and no position an instruction
\* resolved is overwritten by a later instruction, so the remote media a
\* platform instruction references stays in the map.
C35_PositionMapOneToOne ==
    Reordered =>
        /\ \A p, q \in DOMAIN unit.position_map :
               unit.position_map[p] = unit.position_map[q] => p = q
        /\ \A k \in DOMAIN unit.media_order :
               (unit.media_order[k].type = "shopify"
                  /\ \E i \in DOMAIN unit.imgs :
                         unit.imgs[i].id = unit.media_order[k].id.n) =>
                   \E q \in DOMAIN unit.position_map :
                       unit.position_map[q] = unit.media_order[k].id.n

\* upload_media_to_product was called with new files.
Uploaded == unit.fn = "upload_media_to_product" /\ unit.media_files # <<>>

\* The first requests of the uploads, and the one for the k-th file.
UploadLog ==
    {i \in DOMAIN unit.calls :
        /\ unit.calls[i].op \in {"upload_image", "upload_video"}
        /\ unit.calls[i].attempt = 1}
UploadsOf(k) == {i \in UploadLog : unit.calls[i].arg = k}

\* The parts of the destination name of the k-th file: the sanitized SKU or
\* NOSKU, the sanitized product name, the 1-based sequence number, and what
\* follows the last dot of the original name.
SkuPart == IF Sanitize(unit.product_sku) = <<>> THEN NOSKU
           ELSE Sanitize(unit.product_sku)
NamePart == Sanitize(unit.product_name)
ExtensionPart(k) ==
    LET name == unit.media_files[k].filename
        dots == {i \in DOMAIN name : name[i] = "."}
    IN  IF dots = {} THEN <<>>
        ELSE SubSeq(name, 1 + (CHOOSE i \in dots : \A j \in dots : j <= i), Len(name))

\* One upload per new file, in the order of the files; the video endpoint
\* exactly for a content type that starts with video/; each failed file
\* recorded, and the later files uploaded all the same.
UploadedEach ==
    /\ Cardinality(UploadLog) = Len(unit.media_files)
    /\ \A k \in DOMAIN unit.media_files :
           /\ Cardinality(UploadsOf(k)) = 1
           /\ \A i \in UploadsOf(k) :
                  /\ unit.calls[i].op = "upload_video" <=>
                         /\ Len(unit.media_files[k].content_type) >= 6
                         /\ SubSeq(unit.media_files[k].content_type, 1, 6)
                                = <<"v", "i", "d", "e", "o", "/">>
                  /\ \A l \in 1..(k - 1) : \A j \in UploadsOf(l) : j < i
           /\ Final(unit.oUp[k]) # "ok" <=>
                  \E e \in DOMAIN unit.result.errors : unit.result.errors[e].item = k
    /\ unit.result.success <=>
           \A k \in DOMAIN unit.oUp : Final(unit.oUp[k]) = "ok"

\* C32 (as the code has it): upload_media_to_product issues exactly one
\* upload per new file; the file at 0-based index i is named
\* {sanitized sku or NOSKU}_{sanitized product name}_{i+1}.{ext}, the name
\* and its underscore left out when the sanitized product name is empty and
\* the dot and extension left out when the original name has no extension;
\* it goes to the video endpoint exactly when its content type starts with
\* video/ and to the image endpoint otherwise; a failed file is recorded and
\* every later file is still uploaded.
C32_OneUploadPerFile ==
    Uploaded =>
        /\ UploadedEach
        /\ \A k \in DOMAIN unit.media_files :
               unit.filenames[k] =
                   SkuPart
                   \o (IF NamePart = <<>> THEN <<>> ELSE <<"_">> \o NamePart)
                   \o <<"_">> \o Decimal(k)
                   \o (IF ExtensionPart(k) = <<>> THEN <<>>
                       ELSE <<".">> \o ExtensionPart(k))

\* The upload of the first file raised; the second, a video, was sent to the
\* video endpoint under the name NOSKU_Bar_2.mp4.
C32_SecondFileAfterFailure ==
    /\ Uploaded
    /\ unit.product_name = <<"B", "a", "r">> /\ unit.product_sku = <<>>
    /\ unit.media_files = <<Png, Mp4>>
    /\ unit.oUp = <<"exc", "ok">>
    /\ unit.filenames[2] = <<"N", "O", "S", "K", "U", "_", "B", "a", "r", "_", "2",
                             ".", "m", "p", "4">>
    /\ \E i \in UploadsOf(2) : unit.calls[i].op = "upload_video"
    /\ Len(unit.result.errors) = 1

\* C32: upload_media_to_product issues exactly one upload per new file, the
\* file at 0-based index i named {sku or NOSKU}_{sanitized product name}_{i+1}.{ext},
\* sent to the video endpoint exactly when its content type starts with
\* video/, and a failed file is recorded while every later file is uploaded.
C32_EveryFileNamedByPattern ==
    Uploaded =>
        /\ UploadedEach
        /\ \A k \in DOMAIN unit.media_files :
               unit.filenames[k] =
                   SkuPart \o <<"_">> \o NamePart \o <<"_">> \o Decimal(k)
                   \o <<".">> \o ExtensionPart(k)

\* C33: every label of the subcategory vocabulary belongs to the choice list
\* of the bucket key get_subcategory_metafield_key returns for it, so the
\* pre-send choice filter of create_metafields keeps the label in the bucket
\* it was routed to.
C33_VocabularyLabelAllowed ==
    (unit.fn = "get_subcategory_metafield_key"
       /\ unit.subcategory \in Range(SUBCATEGORIES)) =>
        /\ unit.out \in {"subcategory", "subcategory_2"}
        /\ \E i \in DOMAIN get_metafield_choices(unit.out) :
               get_metafield_choices(unit.out)[i] = unit.subcategory
        /\ FilterChoices(<<unit.subcategory>>, Allowed[unit.out]) = <<unit.subcategory>>

\* The sentinel label itself is routed to the overflow bucket, whose choice
\* list opens with it.
C33_SentinelAllowed ==
    /\ unit.fn = "get_subcategory_metafield_key"
    /\ unit.subcategory = SUBCATEGORY_2_FIRST_ITEM
    /\ unit.out = "subcategory_2"
    /\ get_metafield_choices("subcategory_2")[1] = unit.subcategory

\* The invocation of create_metafields just made, if one was.
Invocations == IF unit.fn = "create_metafields" THEN {unit} ELSE {}

\* The attribute writes of an invocation, as positions in its wire log.
WritesOf(inv) ==
    {i \in DOMAIN inv.out.calls :
        inv.out.calls[i].op \in {"metafield_create", "metafield_update",
                                 "metafield_retry"}}

\* The attribute a write is about: named by the payload of a create, by the
\* address of an update.
WrittenIdentity(c) ==
    IF c.arg.url = Collection THEN <<c.arg.payload.namespace, c.arg.payload.key>>
    ELSE c.arg.url

\* The writes of an invocation about one attribute.
WritesAbout(inv, mf) ==
    {i \in WritesOf(inv) :
        WrittenIdentity(inv.out.calls[i]) = <<mf.namespace, mf.key>>}

\* The second of two successive invocations wrote again an attribute that the
\* first one created on a product that did not hold it.
WrittenTwice(mf) ==
    /\ unit.fn = "create_metafields" /\ unit.round = 2
    /\ \E k \in DOMAIN unit.metafields : unit.metafields[k] = mf
    /\ <<mf.namespace, mf.key>> \notin unit.first[1].before
    /\ <<mf.namespace, mf.key>> \in unit.first[1].out.remote

\* One create by the first invocation; by the second no create, an update
\* carrying the value alone, and the attribute held once.
CreatedThenUpdated(mf) ==
    LET first == unit.first[1]
    IN  /\ \E i \in WritesAbout(first, mf) :
               /\ first.out.calls[i].op = "metafield_create"
               /\ first.out.calls[i].method = "POST"
        /\ WritesAbout(unit, mf) # {}
        /\ \A i \in WritesAbout(unit, mf) :
               /\ unit.out.calls[i].method = "PUT"
               /\ unit.out.calls[i].arg.url # Collection
               /\ DOMAIN unit.out.calls[i].arg.payload = {"value"}
        /\ <<mf.namespace, mf.key>> \in unit.out.remote

\* C15: an attribute created by one invocation of create_metafields and
\* written again by the next is created once and then updated by a write that
\* carries only the value; it is never created a second time.
C15_NeverSecondCreate ==
    \A mf \in Range(IF unit.fn = "create_metafields" THEN unit.metafields ELSE <<>>) :
        WrittenTwice(mf) => CreatedThenUpdated(mf)

\* The values an attribute of the input names.
InputLabels(mf) ==
    CASE mf.value.kind \in {"array", "pylist"} -> mf.value.items
      [] mf.value.kind = "scalar" -> <<mf.value.s>>
      [] OTHER -> <<"-">>

\* The values a write carries.
CarriedLabels(c) ==
    CASE c.arg.payload.value.kind \in {"array", "pylist"} -> c.arg.payload.value.items
      [] c.arg.payload.value.kind = "scalar" -> <<c.arg.payload.value.s>>
      [] OTHER -> <<>>

\* The first attempts among the writes of an invocation about one attribute.
FirstSends(inv, mf) ==
    {i \in WritesAbout(inv, mf) : inv.out.calls[i].op # "metafield_retry"}

\* The input values that are, blanks at their ends aside, choices of the key.
ValidLabels(mf) ==
    {i \in DOMAIN InputLabels(mf) : StripLabel(InputLabels(mf)[i]) \in Allowed[mf.key]}

\* The first attempt carries the valid values of the input, in its order, and
\* nothing is sent or counted for an attribute without a valid value.
SendsValidOnly(inv, mf) ==
    /\ \A i \in FirstSends(inv, mf) :
           /\ Range(CarriedLabels(inv.out.calls[i])) \subseteq
                  {InputLabels(mf)[j] : j \in ValidLabels(mf)}
           /\ Len(CarriedLabels(inv.out.calls[i])) = Cardinality(ValidLabels(mf))
    /\ ValidLabels(mf) = {} => WritesAbout(inv, mf) = {}
    /\ ValidLabels(mf) # {} => FirstSends(inv, mf) # {}

\* Every attribute of the list is sent, and counted once as a success or a
\* failure, or is neither sent nor counted.
CountedWhenSent(inv) ==
    inv.out.result.success_count + Len(inv.out.result.errors) =
        Cardinality({k \in DOMAIN inv.metafields :
                        WritesAbout(inv, inv.metafields[k]) # {}})

\* The attributes of the subcategory family in namespace custom.
SubcategoryFamily(inv) ==
    {mf \in Range(inv.metafields) :
        mf.namespace = "custom" /\ (mf.key = "subcategory" \/
                                    mf.key \in {"subcategory_2", "subcategory_3"})}

Retries(inv, mf) ==
    {i \in WritesAbout(inv, mf) : inv.out.calls[i].op = "metafield_retry"}

\* Whether a choice named by the platform is the value sent, blanks at the
\* ends and the case of the letters aside.
SameChoice(a, v) ==
    \/ a = StripLabel(v)
    \/ StripLabel(a) = StripLabel(v)
    \/ LowerCase(StripLabel(a)) = LowerCase(StripLabel(v))

\* The values of the first attempt that the platform's choice list names.
Survivors(inv, sent) ==
    {j \in DOMAIN sent : \E a \in inv.remote_choices : SameChoice(a, sent[j])}

\* Whether the k-th attribute of the list is recorded as failed.
RecordedFailed(inv, k) ==
    \E e \in DOMAIN inv.out.result.errors : inv.out.result.errors[e].item = k

\* The retry of a write refused for its choices: sent once, to the address
\* of the first attempt, carrying the platform's strings for the surviving
\* values; the attribute fails when nothing survives or the retry fails.
RetriedOnce(inv, k) ==
    LET mf == inv.metafields[k]
        log == inv.out.calls
    IN  \A f \in FirstSends(inv, mf) :
            LET sent == CarriedLabels(log[f])
                survivors == Survivors(inv, sent)
            IN  /\ (Retries(inv, mf) = {}) <=> (survivors = {})
                /\ \A i \in Retries(inv, mf) :
                       /\ i > f
                       /\ log[i].method = log[f].method
                       /\ log[i].arg.url = log[f].arg.url
                       /\ Range(CarriedLabels(log[i])) \subseteq inv.remote_choices
                       /\ Len(CarriedLabels(log[i])) = Cardinality(survivors)
                       /\ \A j \in survivors :
                              \E a \in Range(CarriedLabels(log[i])) :
                                  SameChoice(a, sent[j])
                /\ RecordedFailed(inv, k) <=>
                       (survivors = {} \/ GFinal(inv.oRetry) # "ok")

AskedLabel == StripLabel(unit.subcategory)

\* The positions of the vocabulary that the label asked about matches: the
\* exact ones, else the ones equal after normalising the blanks, else the
\* ones equal after normalising the blanks and the case.
ExactMatches == {i \in DOMAIN SUBCATEGORIES : SUBCATEGORIES[i] = AskedLabel}
NormalizedMatches ==
    {i \in DOMAIN SUBCATEGORIES : SUBCATEGORIES[i] = NormalizeSpaces(AskedLabel)}
InsensitiveMatches ==
    {i \in DOMAIN SUBCATEGORIES :
        LowerCase(NormalizeSpaces(SUBCATEGORIES[i])) =
            LowerCase(NormalizeSpaces(AskedLabel))}
LabelMatches ==
    IF ExactMatches # {} THEN ExactMatches
    ELSE IF NormalizedMatches # {} THEN NormalizedMatches
    ELSE InsensitiveMatches

\* The position of the sentinel in the vocabulary.
SentinelPosition == CHOOSE i \in DOMAIN SUBCATEGORIES : SUBCATEGORIES[i] = "Sweets"

\* C19: get_subcategory_metafield_key answers for every label, by the
\* position of the label in the vocabulary: subcategory for a label before
\* the sentinel "Sweets", subcategory_2 for the sentinel and every label
\* after it, subcategory for a blank or unknown label; the label is matched
\* exactly, else with its blanks normalised, else without regard to case.
C19_BucketByVocabularyIndex ==
    unit.fn = "get_subcategory_metafield_key" =>
        /\ unit.out \in {"subcategory", "subcategory_2"}
        /\ (AskedLabel = "" \/ LabelMatches = {}) => unit.out = "subcategory"
        /\ (AskedLabel # "" /\ LabelMatches # {}) =>
               \A i \in LabelMatches :
                   /\ i < SentinelPosition => unit.out = "subcategory"
                   /\ i >= SentinelPosition => unit.out = "subcategory_2"

\* A label after the sentinel, written in lower case with a doubled blank,
\* was routed to the second bucket.
C19_LooseLabelAfterSentinel ==
    /\ unit.fn = "get_subcategory_metafield_key"
    /\ unit.subcategory = "card  box - square"
    /\ ExactMatches = {} /\ NormalizedMatches = {} /\ InsensitiveMatches # {}
    /\ unit.out = "subcategory_2"

\* C20: format_price never raises, and returns as a string, unchanged, every
\* input that is not the text of a decimal number.
C20_NeverRaises ==
    unit.fn = "format_price" =>
        /\ unit.out.kind = "returned"
        /\ unit.price.kind = "text" => unit.out.value = unit.price

\* The price asked about as a fraction of hundredths, Numerator / Denominator
\* in magnitude.
Numerator ==
    Abs(unit.price.coef) * (IF unit.price.scale < 2 THEN Pow10(2 - unit.price.scale) ELSE 1)
Denominator == IF unit.price.scale > 2 THEN Pow10(unit.price.scale - 2) ELSE 1

\* Whether h hundredths are the price rounded half-up: no other count of
\* hundredths is nearer, and of two equally near the larger is taken.
RoundedHalfUp(h) ==
    /\ 2 * Abs(Numerator - h * Denominator) <= Denominator
    /\ 2 * Abs(Numerator - h * Denominator) = Denominator => h * Denominator > Numerator

\* The text of h hundredths: sign, units, a point and exactly two digits.
TwoDigitText(negative, h) ==
    (IF negative THEN "-" ELSE "") \o ToString(h \div 100) \o "."
    \o ToString((h % 100) \div 10) \o ToString(h % 10)

\* The answer is the price rounded half-up to two fractional digits.
RoundedToTwoDigits ==
    /\ unit.out.kind = "returned"
    /\ \E h \in {Numerator \div Denominator, Numerator \div Denominator + 1} :
           /\ RoundedHalfUp(h)
           /\ unit.out.value = TwoDigitText(unit.price.coef < 0, h)

\* A decimal price below 10^26 in magnitude.
BelowPrecision ==
    unit.price.coef = 0 \/ Digits(Abs(unit.price.coef)) - unit.price.scale <= 26

EmptyInput(mf) ==
    \/ mf.value.kind = "blank"
    \/ mf.value.kind = "array" /\ mf.value.items = <<>>

\* The value one first attempt carries is normalised for its type: a list
\* type carries the text of a non-empty array, with "-" alone for an empty
\* input; another type carries "-" for a blank input.
NormalizedValue(mf, v) ==
    /\ mf.type = ListType =>
           /\ v.kind = "array"
           /\ v.items # <<>>
           /\ EmptyInput(mf) => v.items = <<"-">>
    /\ (mf.type # ListType /\ mf.value.kind = "blank") =>
           (v.kind = "scalar" /\ v.s = "-")

\* C22: for every attribute of a list type and every input value (absent,
\* blank, bare scalar, empty array, array string or a value that is no
\* string), the value create_metafields sends is the text of a JSON array and
\* never a bare blank: ["-"] for a blank or empty input; a blank value of a
\* scalar type is sent as "-".
C22_ListValueSentAsArray ==
    \A inv \in Invocations :
        \A mf \in Range(inv.metafields) :
            \A i \in FirstSends(inv, mf) :
                NormalizedValue(mf, inv.out.calls[i].arg.payload.value)

\* An attribute that the choice filter left without a value to send.
FilteredAway(mf) ==
    /\ mf.namespace = "custom"
    /\ mf.key \in {"subcategory", "subcategory_2", "subcategory_3"}
    /\ mf.type = ListType
    /\ mf.value.kind # "none"
    /\ Allowed[mf.key] # {}
    /\ ValidLabels(mf) = {}

\* C23: create_metafields attempts every attribute of its list, whatever
\* became of the attributes before it (only an attribute the choice filter
\* left empty is not sent), and answers success exactly when its list of
\* failures is empty.
C23_EveryAttributeAttempted ==
    \A inv \in Invocations :
        /\ \A k \in DOMAIN inv.metafields :
               FilteredAway(inv.metafields[k]) \/ FirstSends(inv, inv.metafields[k]) # {}
        /\ inv.out.result.success <=> (inv.out.result.errors = <<>>)
        /\ \A k \in DOMAIN inv.metafields :
               inv.oW[k] \in {"err", "exc"} => RecordedFailed(inv, k)

\* The first of two attributes was refused and the second was still sent
\* and accepted.
C23_SecondSentAfterFailure ==
    /\ unit.fn = "create_metafields"
    /\ Len(unit.metafields) = 2
    /\ RecordedFailed(unit, 1)
    /\ FirstSends(unit, unit.metafields[2]) # {}
    /\ unit.out.result = [success |-> FALSE, success_count |-> 1,
                          errors |-> unit.out.result.errors]
    /\ Len(unit.out.result.errors) = 1

\* The two buckets were asked about, the first bucket first.
BothBuckets ==
    /\ unit.fn = "get_metafield_choices"
    /\ unit.keys = <<"subcategory", "subcategory_2">>

\* C24: the choice lists of subcategory and subcategory_2 split the
\* vocabulary at the sentinel: the first followed by the second is the
\* vocabulary in its order, no label is in both, the second starts with
\* "Sweets", and neither holds more than 128 labels.
C24_BucketsPartitionVocabulary ==
    BothBuckets =>
        /\ unit.out[1] \o unit.out[2] = SUBCATEGORIES
        /\ {unit.out[1][i] : i \in DOMAIN unit.out[1]}
               \cap {unit.out[2][i] : i \in DOMAIN unit.out[2]} = {}
        /\ unit.out[2] # <<>> /\ unit.out[2][1] = "Sweets"
        /\ \A i \in DOMAIN unit.out[1] : unit.out[1][i] # "Sweets"
        /\ Len(unit.out[1]) <= 128 /\ Len(unit.out[2]) <= 128

\* The vocabulary of 128 labels was split into 109 and 19.
C24_SplitAtSweets ==
    /\ BothBuckets
    /\ Len(SUBCATEGORIES) = 128
    /\ Len(unit.out[1]) = 109
    /\ Len(unit.out[2]) = 19

\* The selections of a request, those of the structured field first and
\* those of the attribute list after them, each once.
SelectedCategories ==
    Dedupe(unit.request.categories
           \o LabelsFrom(unit.request.metafields, {"custom_category"}))
SelectedSubcategories ==
    Dedupe(unit.request.subcategories
           \o LabelsFrom(unit.request.metafields,
                         {"subcategory", "subcategory_2", "subcategory_3"}))

\* The writes of the attribute step about one key of namespace custom.
WritesOfKey(key) ==
    {i \in DOMAIN unit.out.calls :
        /\ unit.out.calls[i].op = "metafield_create"
        /\ unit.out.calls[i].arg.payload.namespace = "custom"
        /\ unit.out.calls[i].arg.payload.key = key}

\* How often a write carries a label.
Occurrences(i, label) ==
    Cardinality({j \in DOMAIN unit.out.calls[i].arg.payload.value.items :
                    unit.out.calls[i].arg.payload.value.items[j] = label})

\* C25: the attribute step merges the categories and subcategories of the
\* structured fields with those of the attribute list, each once in
\* first-seen order, writes one category attribute holding the merged
\* categories, and writes every merged subcategory once, in the bucket
\* attribute that get_subcategory_metafield_key assigns to it and in no
\* other.
C25_SelectionsMergedAndRouted ==
    unit.fn = "attributes" =>
        /\ SelectedCategories # <<>> =>
               /\ Cardinality(WritesOfKey("custom_category")) = 1
               /\ \A i \in WritesOfKey("custom_category") :
                      unit.out.calls[i].arg.payload.value = JsonArray(SelectedCategories)
        /\ \A n \in DOMAIN SelectedSubcategories :
               \A key \in {"subcategory", "subcategory_2", "subcategory_3"} :
                   IF key = get_subcategory_metafield_key(SelectedSubcategories[n])
                   THEN /\ Cardinality(WritesOfKey(key)) = 1
                        /\ \A i \in WritesOfKey(key) :
                               Occurrences(i, SelectedSubcategories[n]) = 1
                   ELSE \A i \in WritesOfKey(key) :
                            Occurrences(i, SelectedSubcategories[n]) = 0

\* The label matches no vocabulary entry as it stands, and matches one once
\* blanks, or blanks and case, are normalised.
LooselyResolved(label) ==
    /\ \A i \in DOMAIN SUBCATEGORIES : SUBCATEGORIES[i] # StripLabel(label)
    /\ \E i \in DOMAIN SUBCATEGORIES :
           LowerCase(NormalizeSpaces(SUBCATEGORIES[i])) =
               LowerCase(NormalizeSpaces(StripLabel(label)))

\* C34: every subcategory label that get_subcategory_metafield_key resolves
\* to a vocabulary entry only through whitespace normalisation or
\* case-insensitive matching is still written to the platform in its routed
\* bucket attribute; the pre-send choice filter does not drop it.
C34_LooseLabelWritten ==
    unit.fn = "attributes" =>
        \A n \in DOMAIN unit.request.subcategories :
            LET label == unit.request.subcategories[n]
            IN  LooselyResolved(label) =>
                    \E i \in WritesOfKey(get_subcategory_metafield_key(label)) :
                        Occurrences(i, StripLabel(label)) >= 1

\* C37: the attribute list the attribute step hands to create_metafields
\* holds at most one entry per (namespace, key), whatever the attribute list
\* and the category, subcategory and colour fields of the request, so that
\* one invocation issues at most one create per identity.
C37_OneEntryPerIdentity ==
    unit.fn = "attributes" =>
        /\ \A i, j \in DOMAIN unit.metafields :
               Identity(unit.metafields[i]) = Identity(unit.metafields[j]) => i = j
        /\ \A i, j \in DOMAIN unit.out.calls :
               (/\ unit.out.calls[i].op = "metafield_create"
                /\ unit.out.calls[j].op = "metafield_create"
                /\ unit.out.calls[i].attempt = 1 /\ unit.out.calls[j].attempt = 1
                /\ unit.out.calls[i].arg.payload.namespace
                      = unit.out.calls[j].arg.payload.namespace
                /\ unit.out.calls[i].arg.payload.key = unit.out.calls[j].arg.payload.key)
                   => i = j

\* Both interleaved invocations of create_metafields are done.
RaceOver == unit.fn = "race" /\ \A p \in Racers : unit.at[p] = "done"

\* The creates the two invocations issued for one identity.
RaceCreates(mf) ==
    {i \in DOMAIN unit.calls :
        /\ unit.calls[i].op = "metafield_create"
        /\ unit.calls[i].attempt = 1
        /\ unit.calls[i].arg.payload.namespace = mf.namespace
        /\ unit.calls[i].arg.payload.key = mf.key}

\* C38: when two invocations of create_metafields run interleaved on one
\* product for an identity the platform does not hold yet, at most one
\* create is issued for the identity, the other invocation updating it,
\* and both invocations report success.
C38_RaceOneCreate ==
    RaceOver =>
        /\ \A k \in DOMAIN unit.metafields :
               Identity(unit.metafields[k]) \notin unit.before =>
                   Cardinality(RaceCreates(unit.metafields[k])) <= 1
        /\ \A p \in Racers : unit.errors[p] = <<>>

(***************************************************************************)
(* Properties of the media steps of create_product.                        *)
(***************************************************************************)
\* The uploads of new files and the links of referenced media on the wire.
UploadCalls == {i \in DOMAIN calls : calls[i].op \in {"upload_image", "upload_video"}}
LinkCalls == {i \in DOMAIN calls : calls[i].op = "attach" /\ calls[i].attempt = 1}

\* The upload step is over.
UploadStepOver == media_results # NotRun

\* A media item of the keep-set is not linked to the product.
KeptUnlinked ==
    \E k \in DOMAIN product_data.shopify_media_ids :
        \A i \in DOMAIN images : images[i].id # product_data.shopify_media_ids[k].n

\* One bulk link call was issued, before every upload of a new file.
LinkedBeforeUploads ==
    /\ Cardinality(LinkCalls) = 1
    /\ \A i \in LinkCalls : \A j \in UploadCalls : i < j

\* C26 (as the code has it): in a create run with a keep-set, one bulk link
\* call for the referenced media is issued, and it precedes every upload of
\* a new file of the run.
C26_LinkPrecedesUploads ==
    (UploadStepOver /\ ~is_updating /\ product_data.shopify_media_ids # <<>>) =>
        LinkedBeforeUploads

\* A create run linked the referenced media and then uploaded a new file.
C26_LinkedThenUploaded ==
    /\ UploadStepOver /\ ~is_updating
    /\ product_data.shopify_media_ids # <<>>
    /\ LinkCalls # {} /\ UploadCalls # {}
    /\ ~KeptUnlinked

\* C26: for referenced media of the keep-set not yet linked to the product a
\* bulk link call is issued, before every upload of a new file, in create
\* runs and in update runs alike.
C26_LinkInEveryRun ==
    (UploadStepOver /\ (~is_updating \/ KeptUnlinked)
        /\ product_data.shopify_media_ids # <<>>) => LinkedBeforeUploads

\* The requests of the upload and reorder steps, and the read that opens the
\* prune step.
UploadOrReorderOps ==
    {"attach", "upload_image", "upload_video", "post_upload_fetch", "reorder_fetch",
     "position", "cover", "fallback_fetch", "fallback_position"}
PruneReads == {i \in DOMAIN calls : calls[i].op = "prune_fetch"}

\* The run is past its prune step, or at the step after it.
PastPrune == pc \in {"upload", "reorder", "attributes", "variants", "tax", "verify"}

\* The prune step has just read the media of the product and acted on them.
JustPruned ==
    /\ pc \in {"upload", "reorder"}
    /\ media_results = NotRun /\ reorder_results = NotRun
    /\ manage_results # NotRun
    /\ \A e \in DOMAIN manage_results.errors :
           manage_results.errors[e].what # "Error managing product media"

\* C27: in every update run the prune step runs before any upload or
\* reorder, also when no new file is supplied; with an empty keep-list it
\* requests the deletion of every media item on the product.
C27_PruneFirstInUpdates ==
    is_updating =>
        /\ PastPrune => Cardinality(PruneReads) = 1
        /\ \A i \in DOMAIN calls :
               calls[i].op \in UploadOrReorderOps =>
                   \E j \in 1..(i - 1) : calls[j].op = "prune_fetch"
        /\ (JustPruned /\ product_data.shopify_media_ids = <<>>) =>
               \A m \in DOMAIN images :
                   \E d \in DOMAIN calls :
                       calls[d].op = "delete" /\ calls[d].arg = images[m].id

\* An update run without new files and with an empty keep-list pruned a
\* product of two media items; one deletion was refused and the other made.
C27_PrunedWithoutNewFiles ==
    /\ is_updating /\ JustPruned
    /\ product_data.media_files = <<>>
    /\ product_data.shopify_media_ids = <<>>
    /\ Cardinality({d \in DOMAIN calls : calls[d].op = "delete"}) = 2
    /\ Len(images) = 1

\* The media id was on a product before the run, and the media ids the
\* platform instructions of the order reference.
OnProductBefore(id) ==
    \E imgs \in RemoteImageInputs : \E i \in DOMAIN imgs : imgs[i].id = id
ReferencedByOrder ==
    {product_data.media_order[k].id.n :
        k \in {l \in DOMAIN product_data.media_order :
                 product_data.media_order[l].type = "shopify"}}
UploadInstructions ==
    {k \in DOMAIN product_data.media_order : product_data.media_order[k].type = "upload"}

\* C36: in an update run that uploaded at least as many files as the order
\* has upload instructions, every upload instruction is resolved to a media
\* item uploaded in this run: no position write names a media item that was
\* on the product before the run unless a platform instruction references
\* it, also when a prune deletion failed and left a non-kept item behind.
C36_UploadsResolveToNewMedia ==
    (is_updating /\ reorder_results # NotRun /\ media_results # NotRun
       /\ "success_count" \in DOMAIN media_results
       /\ \A k \in DOMAIN product_data.media_files : product_data.media_files[k] = "image"
       /\ media_results.success_count >= Cardinality(UploadInstructions)) =>
        \A i \in DOMAIN calls :
            (calls[i].op = "position" /\ OnProductBefore(calls[i].arg)) =>
                calls[i].arg \in ReferencedByOrder

\* The one variant of a create payload: it requires shipping, carries the
\* formatted price, and carries a SKU, a weight and a quantity exactly when
\* the request has a SKU, a weight above 0 and a quantity.
PlaceholderVariant(variant) ==
    /\ {"price", "requires_shipping"} \subseteq DOMAIN variant
    /\ DOMAIN variant \subseteq
           {"price", "requires_shipping", "sku", "weight", "inventory_quantity"}
    /\ variant.requires_shipping = TRUE
    /\ variant.price = format_price(unit.request.price).value
    /\ ("sku" \in DOMAIN variant) <=> (unit.request.sku # "")
    /\ "sku" \in DOMAIN variant => variant.sku = unit.request.sku
    /\ ("weight" \in DOMAIN variant) <=> (unit.request.weight > 0)
    /\ "weight" \in DOMAIN variant => variant.weight = unit.request.weight
    /\ ("inventory_quantity" \in DOMAIN variant) <=>
           (unit.request.inventory_quantity # NoneVal)
    /\ "inventory_quantity" \in DOMAIN variant =>
           variant.inventory_quantity = unit.request.inventory_quantity.n

\* C28: the core payload of a create run holds exactly one placeholder
\* variant: requires_shipping true, the price formatted by format_price, a
\* SKU only when non-empty, a weight only when above 0, a quantity only when
\* supplied; the core payload of an update run holds title, description,
\* status and tags only, never variants or options.
C28_CorePayload ==
    unit.fn = "payload" =>
        IF unit.request.updating
        THEN DOMAIN unit.out = {"title", "body_html", "status", "tags"}
        ELSE /\ DOMAIN unit.out = {"title", "body_html", "status", "tags", "variants"}
             /\ Len(unit.out.variants) = 1
             /\ PlaceholderVariant(unit.out.variants[1])

\* A create payload whose variant carries a quantity of 0 and neither SKU nor
\* weight.
C28_ZeroQuantitySent ==
    /\ unit.fn = "payload" /\ ~unit.request.updating
    /\ unit.request.inventory_quantity = Num(0)
    /\ DOMAIN unit.out.variants[1] = {"price", "requires_shipping", "inventory_quantity"}
    /\ unit.out.variants[1].price = "1.01"

(***************************************************************************)
(* Properties of Step 5 of create_product.                                 *)
(***************************************************************************)
\* The requests of Step 5 and the calls of the collaborator on the log.
TaxReads == {i \in DOMAIN calls : calls[i].op = "tax_fetch"}
TaxWrites == {i \in DOMAIN calls : calls[i].op = "tax_update"}
CollaboratorCalls == {i \in DOMAIN calls : calls[i].op = "process_product"}

\* The caller asked for a product that is not taxable.
NonTaxableRequested ==
    product_data.charge_vat.kind = "bool" /\ ~product_data.charge_vat.b

\* Step 5 is over.
TaxStepOver == pc = "verify"

\* C29: when the caller asked for non-taxable, then after the collaborator
\* was called, succeeded or not, the variants of the product are read again
\* and all written back with taxable false in one update; when the caller
\* asked for taxable or gave no flag, no request of the tax step is issued.
C29_TaxFixup ==
    /\ \A i \in DOMAIN calls :
           /\ calls[i].op \in {"tax_fetch", "tax_update"} =>
                  /\ NonTaxableRequested
                  /\ price_bandit # "notrun"
                  /\ \A j \in DOMAIN calls : calls[j].op = "process_product" => j < i
           /\ calls[i].op = "tax_update" =>
                  /\ \E j \in 1..(i - 1) : calls[j].op = "tax_fetch"
                  /\ \A j \in DOMAIN calls : calls[j].op = "tax_update" => j = i
                  /\ Len(calls[i].arg.variants) = Len(RemoteVariants)
                  /\ \A v \in DOMAIN calls[i].arg.variants :
                         /\ calls[i].arg.variants[v].id = RemoteVariants[v].id
                         /\ calls[i].arg.variants[v].taxable = FALSE
    /\ (NonTaxableRequested /\ TaxStepOver) =>
           /\ Cardinality(TaxReads) = 1
           /\ faults = 0 => Cardinality(TaxWrites) = 1

\* The collaborator raised, and the variants were still read and written
\* back as not taxable.
C29_FixedAfterCollaboratorRaised ==
    /\ NonTaxableRequested /\ TaxStepOver
    /\ price_bandit = "raise"
    /\ Cardinality(TaxWrites) = 1

\* What create_product hands back: the success result of its last line, or
\* {"success": False, "error": message} of an early return or the outer except.
TerminalOutcome ==
    \/ ret = Success
    \/ /\ DOMAIN ret = {"success", "error"}
       /\ ~ret.success
       /\ ret.error # ""

\* C40: every invocation of create_product terminates in one of two terminal
\* outcomes, a success result carrying the product entity or a structured
\* failure carrying a message, for any input and any behaviour of the remote
\* platform and the collaborator.
C40_TerminatesInTwoOutcomes == <>(Finished /\ TerminalOutcome)

\* The steps of create_product in the order of its text.
StepOrder ==
    <<"start", "write", "sku", "prune", "upload", "reorder", "attributes",
      "variants", "tax", "verify", "done">>
PlaceInText(at) == CHOOSE i \in DOMAIN StepOrder : StepOrder[i] = at

\* Against a platform that answers or fails every request, every step moves
\* the run forward in the text, and what a run returns is one of the two
\* outcomes.
AnsweredRunAdvances == [][PlaceInText(pc') > PlaceInText(pc)]_vars
AnsweredRunOutcome == Finished => TerminalOutcome

====
